---- MODULE Spec2Model ----
(***************************************************************************)
(* Reward engine of the Bioworld website (src/website/app.py):             *)
(* calculate_fair_reward, select_weighted_reward and the loot-table        *)
(* handlers create_loot_table / roll_loot_table that feed it, and the      *)
(* research bonus _calculate_unique_build_bonus.                           *)
(*                                                                         *)
(* Number representation.  Python floats are modelled in fixed point:      *)
(*   - player_luck, min_amount, max_amount: tenths (ONE = 10 is 1.0);      *)
(*   - a weight is a JSON number: Num(n) for the integer n, or NaN;        *)
(*   - an adjusted weight, adjusted_total, cumulative: tenths, as Num/NaN; *)
(*   - roll: twentieths (half a tenth), so that every real roll has a grid *)
(*     point that compares the same way with every cumulative weight:      *)
(*     even points are the tenths themselves, odd points lie strictly      *)
(*     between two of them.                                                *)
(***************************************************************************)
EXTENDS Integers, Sequences, FiniteSets, TLC

VARIABLES
    pc,               \* position of the call under study: "start" or "done"
    loot_entries,     \* select_weighted_reward: argument (list of dicts)
    player_luck,      \* select_weighted_reward: argument (tenths)
    adjusted_entries, \* select_weighted_reward: local, the adjusted weights
    selected,         \* select_weighted_reward: index of the entry the walk returned at, 0 if none
    draws,            \* values the call drew from the shared random source, in order
    result,           \* value returned (or error raised) by the call
    player_level,     \* calculate_fair_reward: argument
    npc_rarity,       \* calculate_fair_reward: argument
    reward_type,      \* calculate_fair_reward: argument
    loot_tables,      \* database: the rows of table loot_tables, by id
    response,         \* the answer to the last HTTP request
    elements_used,    \* _calculate_unique_build_bonus: argument (list of element types)
    synergy_bonus,    \* _calculate_unique_build_bonus: local, in halves
    calls,            \* the calls completed so far, oldest first
    research_progress,   \* database: the rows of table research_progress, oldest first
    barter_transactions, \* database: the rows of table barter_transactions, by id
    clients,             \* the barter request each client has in flight, and its last answer
    now,                 \* datetime.utcnow(), in ticks
    npcs,                \* database: the rows of table npcs, by id
    npc_interactions     \* database: the rows of table npc_interactions, oldest first

vars == <<pc, loot_entries, player_luck, adjusted_entries, selected, draws, result,
          player_level, npc_rarity, reward_type, loot_tables, response,
          elements_used, synergy_bonus, calls,
          research_progress, barter_transactions, clients, now, npcs, npc_interactions>>

selectVars == <<loot_entries, player_luck, adjusted_entries, selected>>

rewardVars == <<player_level, npc_rarity, reward_type>>

bonusVars == <<elements_used, synergy_bonus>>

callVars == <<pc, draws, result, selectVars, rewardVars, bonusVars, calls>>

researchVars == <<research_progress>>

barterVars == <<barter_transactions, clients>>

npcVars == <<npcs, npc_interactions>>

siteVars == <<researchVars, barterVars, npcVars, now>>

dbVars == <<loot_tables, response, siteVars>>

---------------------------------------------------------------------------
(* Bounds of the model *)

MaxEntries == 2

---------------------------------------------------------------------------
(* Values *)

ONE == 10

MAX_LUCK_MULTIPLIER == 20

None == "None"

Num(n) == [t |-> "num", v |-> n]

NaN == [t |-> "nan", v |-> 0]

IsNum(x) == x.t = "num"

\* float * float where the right operand is a finite number of tenths
FMul(x, k) == IF IsNum(x) THEN Num(x.v * k) ELSE NaN

FAdd(x, y) == IF IsNum(x) /\ IsNum(y) THEN Num(x.v + y.v) ELSE NaN

\* dict.get(key, default)
Get(d, key, default) == IF key \in DOMAIN d THEN d[key] ELSE default

Min(a, b) == IF a <= b THEN a ELSE b

Max(a, b) == IF a >= b THEN a ELSE b

\* int(x) of a number given in tenths: truncation toward zero
PyInt(x) == IF x >= 0 THEN x \div ONE ELSE -((-x) \div ONE)

RARE_TIERS == {"rare", "epic", "legendary"}

---------------------------------------------------------------------------
(* select_weighted_reward *)

\* the luck applied whatever its value (no player_luck > 1.0 test)
AdjustedWeight_NoLuckGuard(entry, luck) ==
    LET weight == Get(entry, "weight", Num(1))
        rarity == Get(entry, "rarity", "common")
    IN  IF rarity \in RARE_TIERS
        THEN FMul(weight, Min(luck, MAX_LUCK_MULTIPLIER))
        ELSE FMul(weight, ONE)

\* the luck applied without its cap
AdjustedWeight_Uncapped(entry, luck) ==
    LET weight == Get(entry, "weight", Num(1))
        rarity == Get(entry, "rarity", "common")
    IN  IF rarity \in RARE_TIERS /\ luck > ONE
        THEN FMul(weight, luck)
        ELSE FMul(weight, ONE)

\* the luck applied to the entries of every rarity
AdjustedWeight_AllRarities(entry, luck) ==
    LET weight == Get(entry, "weight", Num(1))
    IN  IF luck > ONE
        THEN FMul(weight, Min(luck, MAX_LUCK_MULTIPLIER))
        ELSE FMul(weight, ONE)

\* lines 1277-1284: the adjusted weight of one entry, in tenths
AdjustedWeight(entry, luck) ==
    LET weight == Get(entry, "weight", Num(1))
        rarity == Get(entry, "rarity", "common")
    IN  IF rarity \in RARE_TIERS /\ luck > ONE
        THEN FMul(weight, Min(luck, MAX_LUCK_MULTIPLIER))
        ELSE FMul(weight, ONE)

\* lines 1275-1284: the loop building adjusted_entries
AdjustedEntries(entries, luck) ==
    [i \in 1..Len(entries) |-> AdjustedWeight(entries[i], luck)]

\* sum of the first n adjusted weights, added left to right from 0
RECURSIVE Cumulative(_, _)
Cumulative(adj, n) ==
    IF n = 0 THEN Num(0) ELSE FAdd(Cumulative(adj, n - 1), adj[n])

\* line 1287
AdjustedTotal(adj) == Cumulative(adj, Len(adj))

\* line 1290: random.uniform(0, adjusted_total), on the grid of twentieths.
\* The end point adjusted_total may or may not be produced; both are allowed.
Uniform(total) ==
    IF ~IsNum(total) THEN {NaN}
    ELSE IF total.v >= 0 THEN {Num(k) : k \in 0..(2 * total.v)}
    ELSE {Num(k) : k \in (2 * total.v)..0}

\* line 1295: roll <= cumulative (roll in twentieths, cumulative in tenths)
RollLe(roll, cumulative) ==
    IsNum(roll) /\ IsNum(cumulative) /\ roll.v <= 2 * cumulative.v

\* the walk with the comparison made against the entry's own weight
WalkIndex_NoAccumulate(adj, roll) ==
    LET hits == {i \in 1..Len(adj) : RollLe(roll, adj[i])}
    IN  IF hits = {} THEN 0 ELSE CHOOSE i \in hits : \A j \in hits : i <= j

\* the walk with the comparison roll < cumulative
WalkIndex_Strict(adj, roll) ==
    LET hits == {i \in 1..Len(adj) :
                    /\ IsNum(roll) /\ IsNum(Cumulative(adj, i))
                    /\ roll.v < 2 * Cumulative(adj, i).v}
    IN  IF hits = {} THEN 0 ELSE CHOOSE i \in hits : \A j \in hits : i <= j

\* lines 1293-1295: the first index whose cumulative weight is >= roll, 0 if none
WalkIndex(adj, roll) ==
    LET hits == {i \in 1..Len(adj) : RollLe(roll, Cumulative(adj, i))}
    IN  IF hits = {} THEN 0 ELSE CHOOSE i \in hits : \A j \in hits : i <= j

\* lines 1300-1305 and 1311-1316: the dict that is returned
RewardDict(entry, amount) ==
    [kind |-> "dict",
     item |-> Get(entry, "item", None),
     item_type |-> Get(entry, "item_type", None),
     rarity |-> Get(entry, "rarity", "common"),
     amount |-> amount]

\* the amount drawn from one past the upper bound
AmountRuns_OffByOne(entry) ==
    LET lo == PyInt(Get(entry, "min_amount", ONE))
        hi == PyInt(Get(entry, "max_amount", ONE))
    IN  IF lo > hi
        THEN {[draws |-> <<>>, result |-> [kind |-> "raise", error |-> "ValueError"]]}
        ELSE {[draws |-> <<a>>, result |-> RewardDict(entry, a)] : a \in lo..(hi + 1)}

\* lines 1297-1299 and 1309-1315: random.randint(int(min_amt), int(max_amt));
\* randint raises ValueError on an empty range, before it draws
AmountRuns(entry) ==
    LET lo == PyInt(Get(entry, "min_amount", ONE))
        hi == PyInt(Get(entry, "max_amount", ONE))
    IN  IF lo > hi
        THEN {[draws |-> <<>>, result |-> [kind |-> "raise", error |-> "ValueError"]]}
        ELSE {[draws |-> <<a>>, result |-> RewardDict(entry, a)] : a \in lo..hi}

\* the function falling off its loop without a fallback
FallbackRuns_ReturnNone(entries) ==
    {[draws |-> <<>>, result |-> [kind |-> "None"]]}

\* lines 1307-1316: the fallback to the first entry
FallbackRuns(entries) == AmountRuns(entries[1])

\* lines 1291-1316: the walk and the amount draw, for one value of roll
SelectRunsAt(entries, adj, roll) ==
    LET idx == WalkIndex(adj, roll)
        amounts == IF idx = 0 THEN FallbackRuns(entries)
                   ELSE AmountRuns(entries[idx])
    IN  {[adjusted_entries |-> adj, selected |-> idx,
          draws |-> <<roll>> \o a.draws, result |-> a.result]
         : a \in amounts}

\* lines 1274-1316: the runs of the function past its guard, one per outcome
\* of the random draws
SelectRunsFrom(entries, luck) ==
    LET adj == AdjustedEntries(entries, luck)
    IN  UNION {SelectRunsAt(entries, adj, roll) : roll \in Uniform(AdjustedTotal(adj))}

\* the function without its guard: an empty list reaches loot_entries[0]
SelectRuns_NoEmptyGuard(entries, luck) ==
    IF Len(entries) = 0
    THEN {[adjusted_entries |-> <<>>, selected |-> 0, draws |-> <<Num(0)>>,
           result |-> [kind |-> "raise", error |-> "IndexError"]]}
    ELSE SelectRunsFrom(entries, luck)

\* lines 1257-1316: every run of select_weighted_reward(entries, luck)
SelectRuns(entries, luck) ==
    IF Len(entries) = 0
    THEN {[adjusted_entries |-> <<>>, selected |-> 0, draws |-> <<>>,
           result |-> [kind |-> "None"]]}
    ELSE SelectRunsFrom(entries, luck)

---------------------------------------------------------------------------
(* Inputs of the direct calls of select_weighted_reward *)

EntryPool ==
    { [item |-> "herb", weight |-> Num(1), rarity |-> "common",
       min_amount |-> 10, max_amount |-> 10],
      [item |-> "gem", item_type |-> "tool", weight |-> Num(2), rarity |-> "rare",
       min_amount |-> 10, max_amount |-> 25],
      [item |-> "herb"],
      [item |-> "relic", weight |-> Num(1), rarity |-> "legendary",
       min_amount |-> 30, max_amount |-> 10],
      [item |-> "dust", weight |-> Num(2), rarity |-> "uncommon",
       min_amount |-> 5, max_amount |-> 10],
      [item |-> "core", weight |-> Num(1), rarity |-> "epic"],
      [item |-> "void", weight |-> Num(-1), rarity |-> "rare",
       min_amount |-> 10, max_amount |-> 20],
      [weight |-> NaN, rarity |-> "common", min_amount |-> 20, max_amount |-> 20] }

Tables == UNION {[1..n -> EntryPool] : n \in 0..MaxEntries}

Lucks == {1, 10, 15, 20, 100}

---------------------------------------------------------------------------
(* Direct calls of select_weighted_reward *)

InitSelect ==
    /\ pc = "start"
    /\ loot_entries \in Tables
    /\ player_luck \in Lucks
    /\ adjusted_entries = <<>>
    /\ selected = 0
    /\ draws = <<>>
    /\ result = [kind |-> "pending"]
    /\ player_level = 1 /\ npc_rarity = "common" /\ reward_type = "coins"
    /\ loot_tables = <<>>
    /\ response = [op |-> "none"]
    /\ elements_used = <<>> /\ synergy_bonus = 0
    /\ calls = <<>>
    /\ research_progress = <<>>
    /\ barter_transactions = <<>> /\ clients = <<>>
    /\ npcs = <<>> /\ npc_interactions = <<>>
    /\ now = 0

\* each entry of the caller's list given the key adjusted_weight in place
LootEntriesAfter_InPlace(entries, luck) ==
    [i \in DOMAIN entries |->
        [key \in DOMAIN entries[i] \cup {"adjusted_weight"} |->
            IF key = "adjusted_weight" THEN AdjustedWeight(entries[i], luck)
            ELSE entries[i][key]]]

\* lines 1275-1284: the caller's list after the call; the loop reads each
\* entry and appends a copy, {**entry, 'adjusted_weight': weight}, to a new
\* list
LootEntriesAfter(entries, luck) == entries

select_weighted_reward ==
    /\ pc = "start"
    /\ \E run \in SelectRuns(loot_entries, player_luck) :
         /\ adjusted_entries' = run.adjusted_entries
         /\ selected' = run.selected
         /\ draws' = run.draws
         /\ result' = run.result
    /\ pc' = "done"
    /\ loot_entries' = LootEntriesAfter(loot_entries, player_luck)
    /\ UNCHANGED player_luck
    /\ UNCHANGED <<rewardVars, dbVars, bonusVars, calls>>

NextSelect == select_weighted_reward

SpecSelect == InitSelect /\ [][NextSelect]_vars

---------------------------------------------------------------------------
(* calculate_fair_reward                                                   *)
(*                                                                         *)
(* Fixed point: base values in tenths, rarity multipliers in halves, the   *)
(* variance in tenths, logarithms in millionths; the reward is an exact    *)
(* fraction of these, rounded to hundredths.                               *)

MIN_PLAYER_LEVEL == 1

\* 0.5, in halves
LEVEL_BONUS_FACTOR == 1

\* 0.8 and 1.2, in tenths
REWARD_VARIANCE_MIN == 8

REWARD_VARIANCE_MAX == 12

\* the multipliers of rare and epic exchanged
RarityMultiplier_Swapped(rarity) ==
    CASE rarity = "common" -> 2
      [] rarity = "uncommon" -> 3
      [] rarity = "rare" -> 8
      [] rarity = "epic" -> 5
      [] rarity = "legendary" -> 15
      [] OTHER -> 2

\* lines 1224-1230 and 1243: rarity_multipliers.get(npc_rarity, 1.0), in halves
RarityMultiplier(rarity) ==
    CASE rarity = "common" -> 2
      [] rarity = "uncommon" -> 3
      [] rarity = "rare" -> 5
      [] rarity = "epic" -> 8
      [] rarity = "legendary" -> 15
      [] OTHER -> 2

\* an unknown reward type given the base value of coins
BaseValue_DefaultCoins(type) ==
    CASE type = "coins" -> 100
      [] type = "tools" -> 10
      [] type = "elements" -> 30
      [] type = "information" -> 50
      [] type = "special_files" -> 20
      [] type = "nft" -> 1
      [] type = "aid" -> 150
      [] OTHER -> 100

\* lines 1233-1241 and 1244: base_values.get(reward_type, 5.0), in tenths
BaseValue(type) ==
    CASE type = "coins" -> 100
      [] type = "tools" -> 10
      [] type = "elements" -> 30
      [] type = "information" -> 50
      [] type = "special_files" -> 20
      [] type = "nft" -> 1
      [] type = "aid" -> 150
      [] OTHER -> 50

\* math.log(x) for the integers the model reaches, in millionths
LogTable ==
    <<0, 693147, 1098612, 1386294, 1609438, 1791759, 1945910, 2079442,
      2197225, 2302585, 2397895, 2484907>>

\* math.log raises ValueError ("math domain error") for x <= 0
MathLogDefined(x) == x >= 1

MathLog(x) == IF x = 101 THEN 4615121 ELSE LogTable[x]

\* line 1254: round(a * f / 4000000), ties to the even neighbour, for
\* a, f >= 0; the product is formed in pieces that fit 32 bits
RoundedProduct(a, f) ==
    LET high == a * (f \div 1000)
        low == a * (f % 1000)
        thousands == high + (low \div 1000)
        q == thousands \div 4000
        rest == (thousands % 4000) * 1000 + (low % 1000)
    IN  IF 2 * rest > 4000000 THEN q + 1
        ELSE IF 2 * rest < 4000000 THEN q
        ELSE q + (q % 2)

\* the level used as it comes
EffectiveLevel_NoClamp(level) == level

\* line 1249
EffectiveLevel(level) == Max(level, MIN_PLAYER_LEVEL)

\* the reward scaled by level_bonus instead of 1 + level_bonus
FairReward_NoOnePlus(level, rarity, type, variance) ==
    LET multiplier == RarityMultiplier(rarity)
        base == BaseValue(type)
        effective_level == EffectiveLevel(level)
    IN  IF ~MathLogDefined(effective_level + 1)
        THEN [kind |-> "raise", error |-> "ValueError"]
        ELSE LET level_bonus == MathLog(effective_level + 1) * LEVEL_BONUS_FACTOR
             IN  [kind |-> "float",
                  value |-> RoundedProduct(base * multiplier * variance,
                                           level_bonus)]

\* the level bonus taken at MIN_PLAYER_LEVEL whatever the level
FairReward_IgnoresLevel(level, rarity, type, variance) ==
    LET multiplier == RarityMultiplier(rarity)
        base == BaseValue(type)
        effective_level == MIN_PLAYER_LEVEL
    IN  IF ~MathLogDefined(effective_level + 1)
        THEN [kind |-> "raise", error |-> "ValueError"]
        ELSE LET level_bonus == MathLog(effective_level + 1) * LEVEL_BONUS_FACTOR
             IN  [kind |-> "float",
                  value |-> RoundedProduct(base * multiplier * variance,
                                           2000000 + level_bonus)]

\* lines 1243-1254: the value returned for one value of the variance draw,
\* in hundredths
FairReward(level, rarity, type, variance) ==
    LET multiplier == RarityMultiplier(rarity)
        base == BaseValue(type)
        effective_level == EffectiveLevel(level)
    IN  IF ~MathLogDefined(effective_level + 1)
        THEN [kind |-> "raise", error |-> "ValueError"]
        ELSE LET \* in two-millionths
                 level_bonus == MathLog(effective_level + 1) * LEVEL_BONUS_FACTOR
                 \* reward = base * multiplier * variance * (1 + level_bonus)
                 \*        = (base * multiplier * variance) / 200
                 \*          * (2000000 + level_bonus) / 2000000
             IN  [kind |-> "float",
                  value |-> RoundedProduct(base * multiplier * variance,
                                           2000000 + level_bonus)]

\* a variance of plus or minus a half
Variances_Wide == (REWARD_VARIANCE_MIN - 3)..(REWARD_VARIANCE_MAX + 3)

\* line 1247: random.uniform(0.8, 1.2), on the grid of tenths
Variances == REWARD_VARIANCE_MIN..REWARD_VARIANCE_MAX

MaxLevel == 3

Levels == (-2..MaxLevel) \cup {5, 10, 100}

Rarities == {"common", "uncommon", "rare", "epic", "legendary"}

RewardTypes == {"coins", "tools", "elements", "information", "special_files", "nft", "aid"}

\* a call that returns the default reward of an unrecognised rarity or
\* reward type before the variance is drawn
FairRewardRuns_DefaultsSkipDraw(level, rarity, type) ==
    IF rarity \notin Rarities \/ type \notin RewardTypes
    THEN {[draws |-> <<>>, result |-> FairReward(level, rarity, type, 10)]}
    ELSE {[draws |-> <<variance>>,
           result |-> FairReward(level, rarity, type, variance)] :
              variance \in Variances}

\* lines 1210-1254: the executions of one call, one for each value of the
\* single draw of line 1247
FairRewardRuns(level, rarity, type) ==
    {[draws |-> <<variance>>,
      result |-> FairReward(level, rarity, type, variance)] :
         variance \in Variances}

InitReward ==
    /\ pc = "start"
    /\ player_level \in Levels
    /\ npc_rarity \in Rarities \cup {"mythic"}
    /\ reward_type \in RewardTypes \cup {"trade"}
    /\ draws = <<>>
    /\ result = [kind |-> "pending"]
    /\ loot_entries = <<>> /\ player_luck = ONE
    /\ adjusted_entries = <<>> /\ selected = 0
    /\ loot_tables = <<>>
    /\ response = [op |-> "none"]
    /\ elements_used = <<>> /\ synergy_bonus = 0
    /\ calls = <<>>
    /\ research_progress = <<>>
    /\ barter_transactions = <<>> /\ clients = <<>>
    /\ npcs = <<>> /\ npc_interactions = <<>>
    /\ now = 0

calculate_fair_reward ==
    /\ pc = "start"
    /\ \E run \in FairRewardRuns(player_level, npc_rarity, reward_type) :
         /\ draws' = run.draws
         /\ result' = run.result
    /\ pc' = "done"
    /\ UNCHANGED <<rewardVars, selectVars, dbVars, bonusVars, calls>>

NextReward == calculate_fair_reward

SpecReward == InitReward /\ [][NextReward]_vars

---------------------------------------------------------------------------
(* Loot-table handlers: POST /api/loot-tables and                          *)
(* POST /api/loot-tables/<table_id>/roll                                   *)

\* a JSON string where a number or a list was expected
Str == [t |-> "str", v |-> 0]

List(xs) == [t |-> "list", v |-> xs]

\* isinstance(x, (int, float)): NaN is a float
IsNumber(x) == x.t \in {"num", "nan"}

\* json.dumps of a list of dicts: per entry, its key/value pairs
JsonDumps(entries) ==
    [i \in 1..Len(entries) |-> {<<k, entries[i][k]>> : k \in DOMAIN entries[i]}]

\* json.loads of such a text: per entry, the dict of its key/value pairs
JsonLoads(text) ==
    [i \in 1..Len(text) |->
        [k \in {kv[1] : kv \in text[i]} |-> (CHOOSE kv \in text[i] : kv[1] = k)[2]]]

\* sqlite3 binds a float NaN as NULL (column total_weight is nullable)
SqlNumber(x) == IF IsNum(x) THEN x ELSE [t |-> "null", v |-> 0]

\* line 3043: the id is a hash of the name (collisions are not modelled)
TableId(name) ==
    CASE name = "Starter" -> "loot-1"
      [] name = "Boss" -> "loot-2"
      [] OTHER -> "loot-0"

\* lines 3033-3038: what is wrong with one entry, None if nothing
EntryError(entry) ==
    IF ~({"item", "weight"} \subseteq DOMAIN entry)
    THEN "Each entry must have: ['item', 'weight']"
    ELSE IF ~IsNumber(entry["weight"]) \/ (IsNum(entry["weight"]) /\ entry["weight"].v <= 0)
    THEN "Entry weights must be positive numbers"
    ELSE None

RECURSIVE FirstEntryError(_, _)
\* lines 3032-3038: the loop returns at the first entry that fails a test
FirstEntryError(entries, i) ==
    IF i > Len(entries) THEN None
    ELSE IF EntryError(entries[i]) # None THEN EntryError(entries[i])
    ELSE FirstEntryError(entries, i + 1)

\* every entry counted for 1, whatever its weight
SumWeights_CountsEntries(entries, n) == Num(n)

RECURSIVE SumWeights(_, _)
\* line 3041: sum(e.get('weight', 1) for e in entries), from 0
SumWeights(entries, n) ==
    IF n = 0 THEN Num(0)
    ELSE FAdd(SumWeights(entries, n - 1), Get(entries[n], "weight", Num(1)))

\* lines 3020-3066: the answer to a create request and the row it inserts
\* (row.insert tells whether one is inserted)
CreateOutcome(data, tables) ==
    IF DOMAIN data = {} \/ ~({"name", "entries"} \subseteq DOMAIN data)
    THEN [insert |-> FALSE,
          response |-> [op |-> "create", data |-> data, status |-> 400,
                        error |-> "Missing required fields: name, entries"]]
    ELSE IF data["entries"].t # "list"
    THEN [insert |-> FALSE,
          response |-> [op |-> "create", data |-> data, status |-> 400,
                        error |-> "entries must be a list"]]
    ELSE LET entries == data["entries"].v
             err == FirstEntryError(entries, 1)
             total_weight == SumWeights(entries, Len(entries))
             table_id == TableId(data["name"])
         IN  IF err # None
             THEN [insert |-> FALSE,
                   response |-> [op |-> "create", data |-> data, status |-> 400,
                                 error |-> err]]
             ELSE IF table_id \in DOMAIN tables
             THEN [insert |-> FALSE,
                   response |-> [op |-> "create", data |-> data, status |-> 409,
                                 error |-> "Loot table already exists"]]
             ELSE [insert |-> TRUE,
                   id |-> table_id,
                   row |-> [name |-> data["name"],
                            entries_json |-> JsonDumps(entries),
                            total_weight |-> SqlNumber(total_weight)],
                   response |-> [op |-> "create", data |-> data, status |-> 201,
                                 error |-> None,
                                 id |-> table_id,
                                 total_weight |-> total_weight,
                                 entry_count |-> Len(entries)]]

\* the answer to a roll once select_weighted_reward has run, without the
\* test that the result is a dict: a None result is answered 200 with a
\* null result
RollAnswer_NoDictCheck(table_id, luck, run) ==
    CASE run.result.kind \in {"dict", "None"} ->
             [op |-> "roll", status |-> 200, error |-> None,
              loot_table_id |-> table_id, player_luck |-> luck,
              result |-> run.result]
      [] OTHER ->
             [op |-> "roll", status |-> 500, error |-> run.result.error,
              loot_table_id |-> table_id, player_luck |-> luck]

\* lines 3082-3093: the answer to a roll once select_weighted_reward has
\* run, kept with the player_luck it was called with.  An exception that
\* leaves the handler is answered 500.
RollAnswer(table_id, luck, run) ==
    CASE run.result.kind = "dict" ->
             [op |-> "roll", status |-> 200, error |-> None,
              loot_table_id |-> table_id, player_luck |-> luck,
              result |-> run.result]
      [] run.result.kind = "None" ->
             [op |-> "roll", status |-> 500,
              error |-> "Failed to select reward from loot table",
              loot_table_id |-> table_id, player_luck |-> luck]
      [] OTHER ->
             [op |-> "roll", status |-> 500, error |-> run.result.error,
              loot_table_id |-> table_id, player_luck |-> luck]

\* line 3073: data.get('player_luck', 1.0), passed on as it is at line 3082
RollLuck(data) == Get(data, "player_luck", ONE)

\* lines 3069-3093: the answers to a roll request, one per outcome of the
\* random draws
RollResponses(table_id, data, tables) ==
    IF table_id \notin DOMAIN tables
    THEN {[op |-> "roll", status |-> 404, error |-> "Loot table not found",
           loot_table_id |-> table_id]}
    ELSE LET entries == JsonLoads(tables[table_id].entries_json)
             luck == RollLuck(data)
         IN  {RollAnswer(table_id, luck, run) : run \in SelectRuns(entries, luck)}

\* the request bodies of POST /api/loot-tables
CreateEntryLists ==
    { <<>>,
      <<[item |-> "herb", weight |-> Num(1), rarity |-> "common",
         min_amount |-> 10, max_amount |-> 10]>>,
      <<[item |-> "herb", weight |-> Num(1), min_amount |-> 10, max_amount |-> 30],
        [item |-> "gem", item_type |-> "tool", weight |-> Num(2), rarity |-> "rare",
         min_amount |-> 10, max_amount |-> 25]>>,
      <<[item |-> "herb", weight |-> Num(2)],
        [item |-> "relic", weight |-> Num(1), rarity |-> "legendary",
         min_amount |-> 30, max_amount |-> 10]>>,
      <<[item |-> "void", weight |-> Num(0)]>>,
      <<[item |-> "herb", weight |-> Num(1)],
        [item |-> "void", weight |-> Num(-1), rarity |-> "rare"]>>,
      <<[item |-> "mist", weight |-> NaN, min_amount |-> 10, max_amount |-> 20],
        [item |-> "gem", weight |-> Num(2), rarity |-> "epic"]>>,
      <<[item |-> "rock", weight |-> Str]>>,
      <<[item |-> "rock"]>> }

TableNames == {"Starter", "Boss"}

CreateBodies ==
    {[name |-> n, entries |-> List(es)] : n \in TableNames, es \in CreateEntryLists}
    \cup {[name |-> "Starter", entries |-> Str], [name |-> "Starter"], <<>>}

RollIds == {"loot-1", "loot-2", "non-existent"}

RollBodies == {<<>>, [player_luck |-> 20], [player_luck |-> 100]}

InitLoot ==
    /\ pc = "start"
    /\ loot_entries = <<>>
    /\ player_luck = ONE
    /\ adjusted_entries = <<>>
    /\ selected = 0
    /\ draws = <<>>
    /\ result = [kind |-> "pending"]
    /\ player_level = 1 /\ npc_rarity = "common" /\ reward_type = "coins"
    /\ loot_tables = <<>>
    /\ response = [op |-> "none"]
    /\ elements_used = <<>> /\ synergy_bonus = 0
    /\ calls = <<>>
    /\ research_progress = <<>>
    /\ barter_transactions = <<>> /\ clients = <<>>
    /\ npcs = <<>> /\ npc_interactions = <<>>
    /\ now = 0

create_loot_table ==
    \E data \in CreateBodies :
        LET out == CreateOutcome(data, loot_tables)
        IN  /\ loot_tables' =
                 IF out.insert
                 THEN [id \in DOMAIN loot_tables \cup {out.id} |->
                          IF id = out.id THEN out.row ELSE loot_tables[id]]
                 ELSE loot_tables
            /\ response' = out.response
            /\ UNCHANGED <<callVars, siteVars>>

roll_loot_table ==
    \E table_id \in RollIds, data \in RollBodies :
        /\ response' \in RollResponses(table_id, data, loot_tables)
        /\ UNCHANGED loot_tables
        /\ UNCHANGED <<callVars, siteVars>>

NextLoot == create_loot_table \/ roll_loot_table

SpecLoot == InitLoot /\ [][NextLoot]_vars

---------------------------------------------------------------------------
(* _calculate_unique_build_bonus                                           *)
(*                                                                         *)
(* Fixed point: base_bonus and synergy_bonus in halves, uniqueness in      *)
(* ten-millionths (0.3 times a logarithm in millionths); the bonus is an   *)
(* exact fraction of these, rounded to hundredths.                         *)

MaxElements == 3

\* the element types the synergy table names
ElementTags == {"organic", "catalyst", "biological", "synthetic", "energy", "compound"}

ElementLists == UNION {[1..n -> ElementTags] : n \in 0..MaxElements}

\* lines 2972-2978, in the order of the dict; bonuses in halves
synergy_combinations ==
    <<[combo |-> {"organic", "catalyst"}, bonus |-> 4],
      [combo |-> {"biological", "synthetic"}, bonus |-> 6],
      [combo |-> {"energy", "compound"}, bonus |-> 5],
      [combo |-> {"organic", "biological", "catalyst"}, bonus |-> 10],
      [combo |-> {"synthetic", "energy", "compound"}, bonus |-> 8]>>

\* the types of the first two elements only
ElementTypes_Prefix(elements) ==
    {elements[i] : i \in DOMAIN elements \cap 1..2}

\* line 2980: set(elements_used)
ElementTypes(elements) == {elements[i] : i \in DOMAIN elements}

\* the bonuses of the matching combinations added up
RECURSIVE SynergyFrom_Sum(_, _, _)
SynergyFrom_Sum(i, element_types, synergy) ==
    IF i > Len(synergy_combinations) THEN synergy
    ELSE SynergyFrom_Sum(
             i + 1, element_types,
             IF synergy_combinations[i].combo \subseteq element_types
             THEN synergy + synergy_combinations[i].bonus
             ELSE synergy)

\* lines 2983-2985: the loop from combination i on, synergy being the value
\* of synergy_bonus so far
RECURSIVE SynergyFrom(_, _, _)
SynergyFrom(i, element_types, synergy) ==
    IF i > Len(synergy_combinations) THEN synergy
    ELSE SynergyFrom(
             i + 1, element_types,
             IF synergy_combinations[i].combo \subseteq element_types
             THEN Max(synergy, synergy_combinations[i].bonus)
             ELSE synergy)

\* lines 2980-2985
SynergyBonus(elements) == SynergyFrom(1, ElementTypes(elements), 0)

\* line 2992: round(n / d), ties to the even neighbour, for n >= 0, d > 0
RoundHalfEven(n, d) ==
    LET q == n \div d
        rest == n % d
    IN  IF 2 * rest > d THEN q + 1
        ELSE IF 2 * rest < d THEN q
        ELSE q + (q % 2)

\* lines 2968-2992: the bonus, in hundredths, of a non-empty list with the
\* given synergy_bonus:
\*   (base_bonus + synergy_bonus) * (1 + uniqueness)
\*     = (count + synergy) / 2 * (10000000 + 3 * ln(count + 1)) / 10000000
TotalBonus(element_count, synergy) ==
    RoundHalfEven((element_count + synergy) * (10000000 + 3 * MathLog(element_count + 1)),
                  200000)

\* the distinct types counted instead of the elements
ElementCount_Distinct(elements) == Cardinality(ElementTypes(elements))

\* line 2968: len(elements_used)
ElementCount(elements) == Len(elements)

\* a bonus scaled by a variance drawn from the random source
UniqueBuildBonusRuns_WithVariance(elements) ==
    IF elements = <<>>
    THEN {[draws |-> <<>>, synergy_bonus |-> 0,
           result |-> [kind |-> "float", value |-> 0]]}
    ELSE {[draws |-> <<variance>>,
           synergy_bonus |-> SynergyBonus(elements),
           result |-> [kind |-> "float",
                       value |-> (TotalBonus(Len(elements), SynergyBonus(elements))
                                     * variance) \div 10]] :
              variance \in Variances}

\* lines 2959-2992: the executions of one call.  The body calls nothing of
\* the random module, so there is one, without draws.
UniqueBuildBonusRuns(elements) ==
    IF elements = <<>>
    THEN {[draws |-> <<>>, synergy_bonus |-> 0,
           result |-> [kind |-> "float", value |-> 0]]}
    ELSE {[draws |-> <<>>,
           synergy_bonus |-> SynergyBonus(elements),
           result |-> [kind |-> "float",
                       value |-> TotalBonus(ElementCount(elements),
                                            SynergyBonus(elements))]]}

InitBonus ==
    /\ pc = "start"
    /\ elements_used \in ElementLists
    /\ synergy_bonus = 0
    /\ draws = <<>>
    /\ result = [kind |-> "pending"]
    /\ loot_entries = <<>> /\ player_luck = ONE
    /\ adjusted_entries = <<>> /\ selected = 0
    /\ player_level = 1 /\ npc_rarity = "common" /\ reward_type = "coins"
    /\ loot_tables = <<>>
    /\ response = [op |-> "none"]
    /\ calls = <<>>
    /\ research_progress = <<>>
    /\ barter_transactions = <<>> /\ clients = <<>>
    /\ npcs = <<>> /\ npc_interactions = <<>>
    /\ now = 0

calculate_unique_build_bonus ==
    /\ pc = "start"
    /\ \E run \in UniqueBuildBonusRuns(elements_used) :
         /\ synergy_bonus' = run.synergy_bonus
         /\ draws' = run.draws
         /\ result' = run.result
    /\ pc' = "done"
    /\ UNCHANGED <<elements_used, selectVars, rewardVars, dbVars, calls>>

NextBonus == calculate_unique_build_bonus

SpecBonus == InitBonus /\ [][NextBonus]_vars

---------------------------------------------------------------------------
(* POST /api/research-progress: add_research_contribution                  *)
(*                                                                         *)
(* contribution_amount is in thousandths, the bonus and total_contribution *)
(* in hundredths.  datetime.utcnow() is the counter now; it advances with  *)
(* every reading, so the identifiers made from it are fresh.  An answer    *)
(* is kept with the request body it answers, in its field data.            *)

MaxTime == 3

\* the list given to the bonus when the request has none, taken as one
\* unnamed element
ElementsArgument_DefaultSingle(data) == Get(data, "elements_used", <<"organic">>)

\* line 2931: data.get('elements_used', [])
ElementsArgument(data) == Get(data, "elements_used", <<>>)

\* lines 2946 and 2953: round(contribution_amount + unique_build_bonus, 2)
TotalContribution(amount, bonus) == RoundHalfEven(amount + bonus * 10, 10)

\* lines 2915-2954: the outcomes of one request, one per execution of the
\* bonus calculation
ContributionOutcomes(data, time) ==
    IF ~({"disease_id", "player_id", "contribution_amount"} \subseteq DOMAIN data)
    THEN {[insert |-> FALSE, called |-> FALSE,
           response |-> [op |-> "add_research_contribution", data |-> data,
                         status |-> 400, error |-> "Missing required fields"]]}
    ELSE IF data.contribution_amount < 0
    THEN {[insert |-> FALSE, called |-> FALSE,
           response |-> [op |-> "add_research_contribution", data |-> data,
                         status |-> 400,
                         error |-> "Contribution amount must be non-negative"]]}
    ELSE LET progress_id == [prefix |-> "prog", at |-> time]
             elements == ElementsArgument(data)
         IN  {[insert |-> TRUE, called |-> TRUE,
               elements_used |-> elements,
               run |-> run,
               row |-> [id |-> progress_id,
                        disease_id |-> data.disease_id,
                        player_id |-> data.player_id,
                        contribution_amount |-> data.contribution_amount,
                        contribution_type |-> Get(data, "contribution_type", "standard"),
                        unique_build_bonus |-> run.result.value],
               response |-> [op |-> "add_research_contribution", data |-> data,
                             status |-> 201,
                             id |-> progress_id,
                             base_contribution |-> data.contribution_amount,
                             unique_build_bonus |-> run.result.value,
                             total_contribution |->
                                 TotalContribution(data.contribution_amount,
                                                   run.result.value)]] :
                 run \in UniqueBuildBonusRuns(elements)}

\* the request bodies of POST /api/research-progress
ContributionAmounts == {-1000, 0, 1234, 10000}

ContributionBodies ==
    {[disease_id |-> "disease-001", player_id |-> "player-001"]}
    \cup [disease_id : {"disease-001"}, player_id : {"player-001"},
          contribution_amount : ContributionAmounts]
    \cup [disease_id : {"disease-001"}, player_id : {"player-001"},
          contribution_amount : ContributionAmounts,
          elements_used : {<<>>, <<"organic", "catalyst", "biological">>}]

InitResearch ==
    /\ pc = "start"
    /\ research_progress = <<>>
    /\ now = 0
    /\ response = [op |-> "none"]
    /\ elements_used = <<>> /\ synergy_bonus = 0
    /\ draws = <<>>
    /\ result = [kind |-> "pending"]
    /\ loot_entries = <<>> /\ player_luck = ONE
    /\ adjusted_entries = <<>> /\ selected = 0
    /\ player_level = 1 /\ npc_rarity = "common" /\ reward_type = "coins"
    /\ loot_tables = <<>>
    /\ calls = <<>>
    /\ barter_transactions = <<>> /\ clients = <<>>
    /\ npcs = <<>> /\ npc_interactions = <<>>

add_research_contribution ==
    \E data \in ContributionBodies :
        \E out \in ContributionOutcomes(data, now) :
            /\ out.insert => now < MaxTime
            /\ response' = out.response
            /\ IF out.insert
               THEN /\ research_progress' = Append(research_progress, out.row)
                    /\ now' = now + 1
               ELSE UNCHANGED <<research_progress, now>>
            /\ IF out.called
               THEN /\ elements_used' = out.elements_used
                    /\ synergy_bonus' = out.run.synergy_bonus
                    /\ draws' = out.run.draws
                    /\ result' = out.run.result
                    /\ pc' = "done"
               ELSE UNCHANGED <<elements_used, synergy_bonus, draws, result, pc>>
            /\ UNCHANGED <<selectVars, rewardVars, calls, loot_tables,
                           barterVars, npcVars>>

NextResearch == add_research_contribution

SpecResearch == InitResearch /\ [][NextResearch]_vars

---------------------------------------------------------------------------
(* The barter endpoints, POST /api/barter/create, /api/barter/<id>/accept  *)
(* and /api/barter/<id>/decline, over the table barter_transactions.  Each *)
(* request works on its own connection (get_db); accept and decline first  *)
(* SELECT the row, then UPDATE it by id alone and commit.  Requests sent   *)
(* one after another run whole; requests served at the same time           *)
(* interleave between the SELECT of one and the UPDATE of the other.       *)

\* line 1785: "barter-" and a digest of the time of the request
BarterId(time) == [prefix |-> "barter", at |-> time]

\* an identifier that no barter carries
UnknownBarterId == BarterId(-1)

\* the identifiers named by accept and decline requests
BarterIds == {BarterId(time) : time \in 0..(MaxTime - 1)} \cup {UnknownBarterId}

\* line 323: column completed_at of a row that was never completed
Null == [t |-> "null", v |-> 0]

Timestamp(time) == [t |-> "timestamp", v |-> time]

BarterItems == <<[item_id |-> "elem-001", quantity |-> 5]>>

\* the request bodies of POST /api/barter/create
BarterBodies ==
    { <<>>,
      [initiator_id |-> "player-001", recipient_id |-> "player-002"],
      [initiator_id |-> "player-001", recipient_id |-> "player-002",
       offered_items |-> BarterItems, requested_items |-> BarterItems] }

\* lines 1788-1799: the row inserted by create_barter
BarterRow(data) ==
    [initiator_id |-> data.initiator_id,
     recipient_id |-> data.recipient_id,
     offered_items_json |-> JsonDumps(data.offered_items),
     requested_items_json |-> JsonDumps(data.requested_items),
     status |-> "pending",
     completed_at |-> Null]

\* lines 1776-1806: what create_barter does with a request body at a time
CreateBarterOutcome(data, time) ==
    IF ~({"initiator_id", "recipient_id", "offered_items", "requested_items"}
            \subseteq DOMAIN data)
    THEN [insert |-> FALSE,
          response |-> [op |-> "create_barter", status |-> 400,
                        error |-> "Missing required fields"]]
    ELSE [insert |-> TRUE,
          id |-> BarterId(time),
          row |-> BarterRow(data),
          response |-> [op |-> "create_barter", status |-> 201,
                        body |-> [message |-> "Barter offer created",
                                  id |-> BarterId(time),
                                  status |-> "pending"]]]

\* the row a request finds when no row has the id
NoRow == [status |-> "absent"]

\* lines 1813 and 1838: SELECT * FROM barter_transactions WHERE id = ?
SelectBarter(rows, barter_id) ==
    IF barter_id \in DOMAIN rows THEN rows[barter_id] ELSE NoRow

\* the wording of each handler
Verb(handler) == IF handler = "accept_barter" THEN "accepted" ELSE "declined"

\* the status each handler writes and answers
Target(handler) == IF handler = "accept_barter" THEN "completed" ELSE "declined"

\* the handlers refusing only the identifiers they do not find
Refusal_NotFoundOnly(handler, barter_id, barter) ==
    IF barter = NoRow
    THEN [op |-> handler, barter_id |-> barter_id, status |-> 404,
          error |-> "Barter transaction not found"]
    ELSE [op |-> handler, barter_id |-> barter_id, status |-> 0]

\* lines 1815-1819 and 1840-1844: the answer given before any write, from
\* the row that was selected; status 0 when the handler goes on
Refusal(handler, barter_id, barter) ==
    IF barter = NoRow
    THEN [op |-> handler, barter_id |-> barter_id, status |-> 404,
          error |-> "Barter transaction not found"]
    ELSE IF barter.status # "pending"
    THEN [op |-> handler, barter_id |-> barter_id, status |-> 400,
          error |-> "Barter cannot be " \o Verb(handler),
          current |-> barter.status]
    ELSE [op |-> handler, barter_id |-> barter_id, status |-> 0]

\* the update of accept_barter leaving the status as it is
UpdateBarter_KeepsStatus(handler, rows, barter_id, time) ==
    IF barter_id \notin DOMAIN rows THEN rows
    ELSE IF handler = "accept_barter"
    THEN [rows EXCEPT ![barter_id].completed_at = Timestamp(time)]
    ELSE [rows EXCEPT ![barter_id].status = "declined"]

\* lines 1821-1825 and 1846-1850: UPDATE barter_transactions SET ... WHERE
\* id = ?, and the commit; accept also sets completed_at to the time
UpdateBarter(handler, rows, barter_id, time) ==
    IF barter_id \notin DOMAIN rows THEN rows
    ELSE IF handler = "accept_barter"
    THEN [rows EXCEPT ![barter_id].status = "completed",
                      ![barter_id].completed_at = Timestamp(time)]
    ELSE [rows EXCEPT ![barter_id].status = "declined"]

\* lines 1827-1831 and 1852-1856: the answer after the commit
Accepted(handler, barter_id) ==
    [op |-> handler, barter_id |-> barter_id, status |-> 200,
     body |-> [message |-> IF handler = "accept_barter"
                           THEN "Barter completed successfully"
                           ELSE "Barter declined",
               id |-> barter_id,
               status |-> Target(handler)]]

\* lines 1809-1831 and 1834-1856 after the SELECT: from the row that was
\* selected and the table as it is now, the table after the handler and
\* the answer
TransitionOutcome(handler, barter_id, barter, rows, time) ==
    LET refusal == Refusal(handler, barter_id, barter)
    IN  IF refusal.status # 0
        THEN [write |-> FALSE, rows |-> rows, response |-> refusal]
        ELSE [write |-> TRUE,
              rows |-> UpdateBarter(handler, rows, barter_id, time),
              response |-> Accepted(handler, barter_id)]

\* line 1823: accept_barter reads the clock when it writes; decline_barter
\* never does
ReadsClock(handler, out) == handler = "accept_barter" /\ out.write

InitBarter ==
    /\ barter_transactions = <<>>
    /\ clients = <<>>
    /\ now = 0
    /\ response = [op |-> "none"]
    /\ pc = "start"
    /\ loot_entries = <<>> /\ player_luck = ONE
    /\ adjusted_entries = <<>> /\ selected = 0
    /\ draws = <<>>
    /\ result = [kind |-> "pending"]
    /\ player_level = 1 /\ npc_rarity = "common" /\ reward_type = "coins"
    /\ loot_tables = <<>>
    /\ elements_used = <<>> /\ synergy_bonus = 0
    /\ calls = <<>>
    /\ research_progress = <<>>
    /\ npcs = <<>> /\ npc_interactions = <<>>

\* lines 1776-1806
create_barter ==
    \E data \in BarterBodies :
        LET out == CreateBarterOutcome(data, now)
        IN  /\ out.insert => now < MaxTime
            /\ response' = out.response
            /\ IF out.insert
               THEN /\ barter_transactions' = (out.id :> out.row) @@ barter_transactions
                    /\ now' = now + 1
               ELSE UNCHANGED <<barter_transactions, now>>
            /\ UNCHANGED <<callVars, loot_tables, researchVars, npcVars, clients>>

\* a whole accept or decline request, nothing running beside it
Transition(handler) ==
    \E barter_id \in BarterIds :
        LET barter == SelectBarter(barter_transactions, barter_id)
            out == TransitionOutcome(handler, barter_id, barter,
                                     barter_transactions, now)
        IN  /\ ReadsClock(handler, out) => now < MaxTime
            /\ response' = out.response
            /\ barter_transactions' = out.rows
            /\ now' = IF ReadsClock(handler, out) THEN now + 1 ELSE now
            /\ UNCHANGED <<callVars, loot_tables, researchVars, npcVars, clients>>

\* lines 1809-1831
accept_barter == Transition("accept_barter")

\* lines 1834-1856
decline_barter == Transition("decline_barter")

NextBarter == create_barter \/ accept_barter \/ decline_barter

SpecBarter == InitBarter /\ [][NextBarter]_vars

---------------------------------------------------------------------------
(* The same endpoints with an accept request and a decline request served  *)
(* at the same time, each in its own thread with its own connection: a     *)
(* request is two steps, the SELECT and then the rest of the handler.      *)

Clients == {"client-1", "client-2"}

Idle == [pc |-> "idle", response |-> [op |-> "none"]]

InitBarterRace ==
    /\ barter_transactions = <<>>
    /\ clients = [c \in Clients |-> Idle]
    /\ now = 0
    /\ response = [op |-> "none"]
    /\ pc = "start"
    /\ loot_entries = <<>> /\ player_luck = ONE
    /\ adjusted_entries = <<>> /\ selected = 0
    /\ draws = <<>>
    /\ result = [kind |-> "pending"]
    /\ player_level = 1 /\ npc_rarity = "common" /\ reward_type = "coins"
    /\ loot_tables = <<>>
    /\ elements_used = <<>> /\ synergy_bonus = 0
    /\ calls = <<>>
    /\ research_progress = <<>>
    /\ npcs = <<>> /\ npc_interactions = <<>>

\* lines 1812-1813 and 1837-1838: the request arrives and selects the row
TransitionSelect(handler) ==
    \E c \in Clients, barter_id \in BarterIds :
        /\ clients[c].pc = "idle"
        /\ clients' = [clients EXCEPT ![c] =
                          [pc |-> "selected", handler |-> handler,
                           barter_id |-> barter_id,
                           barter |-> SelectBarter(barter_transactions, barter_id)]]
        /\ UNCHANGED <<barter_transactions, now, response>>
        /\ UNCHANGED <<callVars, loot_tables, researchVars, npcVars>>

\* lines 1815-1831 and 1840-1856: the checks on the selected row, the UPDATE,
\* the commit and the answer
TransitionAnswer(handler) ==
    \E c \in Clients :
        /\ clients[c].pc = "selected"
        /\ clients[c].handler = handler
        /\ LET out == TransitionOutcome(handler, clients[c].barter_id,
                                        clients[c].barter, barter_transactions, now)
           IN  /\ ReadsClock(handler, out) => now < MaxTime
               /\ clients' = [clients EXCEPT ![c] =
                                 [pc |-> "idle", response |-> out.response]]
               /\ barter_transactions' = out.rows
               /\ now' = IF ReadsClock(handler, out) THEN now + 1 ELSE now
        /\ UNCHANGED response
        /\ UNCHANGED <<callVars, loot_tables, researchVars, npcVars>>

accept_barter_select == TransitionSelect("accept_barter")

accept_barter_answer == TransitionAnswer("accept_barter")

decline_barter_select == TransitionSelect("decline_barter")

decline_barter_answer == TransitionAnswer("decline_barter")

NextBarterRace ==
    \/ create_barter
    \/ accept_barter_select
    \/ accept_barter_answer
    \/ decline_barter_select
    \/ decline_barter_answer

SpecBarterRace == InitBarterRace /\ [][NextBarterRace]_vars

---------------------------------------------------------------------------
(* The NPC endpoints, POST /api/npcs and POST /api/npcs/<id>/interact,     *)
(* over the tables npcs and npc_interactions.  A level in a request is in  *)
(* tenths, as a luck is; a reward amount is in hundredths.                 *)

\* line 1388: "npc-" and a digest of the name and the time of the request
NpcId(name, time) == [prefix |-> "npc", name |-> name, at |-> time]

\* line 1649: "int-" and a digest of the time of the request
InteractionId(time) == [prefix |-> "int", at |-> time]

\* lines 1373-1376
valid_types == {"helper", "merchant", "information_giver", "tool_giver",
                "quest_giver", "trainer", "banker", "researcher"}

valid_roles == {"aid", "trade", "information", "tools", "special_files",
                "nfts", "coins", "crafting", "research"}

valid_rarities == {"common", "uncommon", "rare", "epic", "legendary"}

\* the request bodies of POST /api/npcs
NpcBodies ==
    { [name |-> "Reward Giver"],
      [name |-> "Reward Giver", npc_type |-> "helper", role |-> "invalid_role"],
      [name |-> "Reward Giver", npc_type |-> "helper", role |-> "coins"],
      [name |-> "Sage", npc_type |-> "researcher", role |-> "research",
       rarity |-> "rare"] }

\* lines 1365-1414 and 202-214: what create_npc does with a request body at
\* a time; interaction_count takes its default, 0
CreateNpcOutcome(data, time) ==
    IF ~({"name", "npc_type", "role"} \subseteq DOMAIN data)
    THEN [insert |-> FALSE,
          response |-> [op |-> "create_npc", status |-> 400,
                        error |-> "Missing required fields"]]
    ELSE IF data.npc_type \notin valid_types
    THEN [insert |-> FALSE,
          response |-> [op |-> "create_npc", status |-> 400,
                        error |-> "Invalid npc_type"]]
    ELSE IF data.role \notin valid_roles
    THEN [insert |-> FALSE,
          response |-> [op |-> "create_npc", status |-> 400,
                        error |-> "Invalid role"]]
    ELSE IF Get(data, "rarity", "common") \notin valid_rarities
    THEN [insert |-> FALSE,
          response |-> [op |-> "create_npc", status |-> 400,
                        error |-> "Invalid rarity"]]
    ELSE [insert |-> TRUE,
          id |-> NpcId(data.name, time),
          row |-> [name |-> data.name,
                   npc_type |-> data.npc_type,
                   role |-> data.role,
                   rarity |-> Get(data, "rarity", "common"),
                   interaction_count |-> 0],
          response |-> [op |-> "create_npc", status |-> 201,
                        id |-> NpcId(data.name, time)]]

\* the request bodies of POST /api/npcs/<id>/interact
InteractBodies ==
    { <<>>,
      [player_level |-> Num(-50), player_luck |-> NaN],
      [player_id |-> "player-001", player_level |-> Str] }

\* lines 1627-1628: int() and float() raise on what is no number
Malformed(data) ==
    \/ ~IsNum(Get(data, "player_level", Num(ONE)))
    \/ ~IsNumber(Get(data, "player_luck", Num(ONE)))

\* line 1627: max(1, min(int(level), 100))
ClampedLevel(data) ==
    Max(1, Min(PyInt(Get(data, "player_level", Num(ONE)).v), 100))

\* line 1628: max(0.1, min(float(luck), MAX_LUCK_MULTIPLIER)); min returns
\* its first argument when that is nan, max its first when the second is
ClampedLuck(data) ==
    LET luck == Get(data, "player_luck", Num(ONE))
    IN  IF IsNum(luck) THEN Max(1, Min(luck.v, MAX_LUCK_MULTIPLIER)) ELSE 1

\* lines 1687-1724: rewards_by_role
rewards_by_role ==
    [aid |-> [type |-> "aid",
              options |-> <<"health_pack", "energy_boost", "research_assist",
                            "protection_buff">>],
     trade |-> [type |-> "coins", currency |-> "biocoin"],
     information |-> [type |-> "information",
                      options |-> <<"research_tip", "location_hint", "recipe_clue",
                                    "npc_location", "rare_element_spot">>],
     tools |-> [type |-> "tool",
                options |-> <<"basic_tool", "advanced_tool", "specialized_tool",
                              "rare_tool">>],
     special_files |-> [type |-> "special_file",
                        options |-> <<"blueprint", "research_data",
                                      "encrypted_file", "ancient_document">>],
     nfts |-> [type |-> "nft",
               options |-> <<"common_nft", "rare_nft", "epic_nft", "legendary_nft">>],
     coins |-> [type |-> "coins", currency |-> "biocoin"],
     crafting |-> [type |-> "element",
                   options |-> <<"basic_element", "compound_element",
                                 "rare_element", "exotic_element">>],
     research |-> [type |-> "research_contribution",
                   options |-> <<"data_sample", "analysis_result",
                                 "breakthrough_fragment">>]]

\* line 1726
RoleConfig(role) ==
    IF role \in DOMAIN rewards_by_role THEN rewards_by_role[role]
    ELSE rewards_by_role["trade"]

\* lines 1730-1731: round(base_amount * luck_bonus, 2), luck_bonus being
\* 1.0 + (luck - 1.0) * 0.1 above luck 1.0; a product that lies half way
\* between two hundredths is rounded to either
FinalAmounts(base_amount, luck) ==
    LET luck_bonus == IF luck > ONE THEN 100 + (luck - ONE) ELSE 100
        product == base_amount * luck_bonus
        q == product \div 100
        rest == product % 100
    IN  IF rest = 50 THEN {q, q + 1}
        ELSE IF rest > 50 THEN {q + 1}
        ELSE {q}

\* lines 1744-1745: the weights of random.choices over the options
OptionWeight(i, rarity) ==
    1 + (i - 1) * (CASE rarity = "rare" -> 1
                     [] rarity = "epic" -> 2
                     [] rarity = "legendary" -> 3
                     [] OTHER -> 0)

\* lines 1685-1753: the rewards _generate_npc_reward can return
NpcRewards(role, rarity, base_amount, luck) ==
    LET role_config == RoleConfig(role)
        plain == {[type |-> role_config.type, amount |-> amount, rarity |-> rarity]
                     : amount \in FinalAmounts(base_amount, luck)}
    IN  IF "options" \in DOMAIN role_config
        THEN {[type |-> reward.type, amount |-> reward.amount,
               rarity |-> reward.rarity,
               item |-> role_config.options[i],
               item_id |-> [prefix |-> role_config.type,
                            item |-> role_config.options[i]]]
                 : reward \in plain,
                   i \in {j \in DOMAIN role_config.options :
                             OptionWeight(j, rarity) > 0}}
        ELSE {[type |-> reward.type, amount |-> reward.amount,
               rarity |-> reward.rarity, currency |-> role_config.currency]
                 : reward \in plain}

\* the update of line 1667 without its WHERE clause
CountInteraction_EveryNpc(rows, npc_id) ==
    [id \in DOMAIN rows |->
        [rows[id] EXCEPT !.interaction_count = rows[id].interaction_count + 1]]

\* lines 1666-1669: UPDATE npcs SET interaction_count = interaction_count + 1
\* WHERE id = ?
CountInteraction(rows, npc_id) ==
    [id \in DOMAIN rows |->
        IF id = npc_id
        THEN [rows[id] EXCEPT !.interaction_count = rows[id].interaction_count + 1]
        ELSE rows[id]]

\* lines 1616-1682: the executions of an interact request at a time, one per
\* outcome of the random draws
InteractOutcomes(npc_id, data, rows, time) ==
    IF Malformed(data)
    THEN {[insert |-> FALSE,
           response |-> [op |-> "interact_with_npc", npc_id |-> npc_id,
                         status |-> 500, error |-> "ValueError"]]}
    ELSE IF npc_id \notin DOMAIN rows
    THEN {[insert |-> FALSE,
           response |-> [op |-> "interact_with_npc", npc_id |-> npc_id,
                         status |-> 404, error |-> "NPC not found"]]}
    ELSE LET npc == rows[npc_id]
             player_id == Get(data, "player_id", "anonymous")
             level == ClampedLevel(data)
             luck == ClampedLuck(data)
         IN  {[insert |-> TRUE,
               row |-> [id |-> InteractionId(time),
                        npc_id |-> npc_id,
                        player_id |-> player_id,
                        interaction_type |-> npc.role,
                        reward_type |-> reward.type,
                        reward_amount |-> reward.amount,
                        reward_item_id |-> Get(reward, "item_id", Null),
                        success |-> 1],
               npcs |-> CountInteraction(rows, npc_id),
               response |-> [op |-> "interact_with_npc", npc_id |-> npc_id,
                             status |-> 200,
                             interaction_id |-> InteractionId(time),
                             player_level |-> level,
                             player_luck |-> luck,
                             reward |-> reward]]
                 : reward \in UNION {NpcRewards(npc.role, npc.rarity,
                                                run.result.value, luck)
                                        : run \in FairRewardRuns(level,
                                                                 npc.rarity,
                                                                 npc.role)}}

\* the identifiers named by interact requests
NpcIds == DOMAIN npcs \cup {NpcId("non-existent", 0)}

InitNpc ==
    /\ npcs = <<>> /\ npc_interactions = <<>>
    /\ now = 0
    /\ response = [op |-> "none"]
    /\ pc = "start"
    /\ loot_entries = <<>> /\ player_luck = ONE
    /\ adjusted_entries = <<>> /\ selected = 0
    /\ draws = <<>>
    /\ result = [kind |-> "pending"]
    /\ player_level = 1 /\ npc_rarity = "common" /\ reward_type = "coins"
    /\ loot_tables = <<>>
    /\ elements_used = <<>> /\ synergy_bonus = 0
    /\ calls = <<>>
    /\ research_progress = <<>>
    /\ barter_transactions = <<>> /\ clients = <<>>

\* lines 1365-1414
create_npc ==
    \E data \in NpcBodies :
        LET out == CreateNpcOutcome(data, now)
        IN  /\ out.insert => now < MaxTime
            /\ response' = out.response
            /\ IF out.insert
               THEN /\ npcs' = (out.id :> out.row) @@ npcs
                    /\ now' = now + 1
               ELSE UNCHANGED <<npcs, now>>
            /\ UNCHANGED npc_interactions
            /\ UNCHANGED <<callVars, loot_tables, researchVars, barterVars>>

\* lines 1616-1682
interact_with_npc ==
    \E npc_id \in NpcIds, data \in InteractBodies :
        \E out \in InteractOutcomes(npc_id, data, npcs, now) :
            /\ out.insert => now < MaxTime
            /\ response' = out.response
            /\ IF out.insert
               THEN /\ npc_interactions' = Append(npc_interactions, out.row)
                    /\ npcs' = out.npcs
                    /\ now' = now + 1
               ELSE UNCHANGED <<npcs, npc_interactions, now>>
            /\ UNCHANGED <<callVars, loot_tables, researchVars, barterVars>>

NextNpc == create_npc \/ interact_with_npc

SpecNpc == InitNpc /\ [][NextNpc]_vars

---------------------------------------------------------------------------
(* Calls of the three functions one after another, in any order.  The      *)
(* functions read and write no module-level name but the random module     *)
(* (app.py:18), whose values are the draws of each call.                   *)

MaxCalls == 3

CallFairArgs ==
    {[player_level |-> 0, npc_rarity |-> "common", reward_type |-> "coins"],
     [player_level |-> 5, npc_rarity |-> "rare", reward_type |-> "coins"]}

CallSelectArgs ==
    LET herb == [item |-> "herb", weight |-> Num(1), rarity |-> "common",
                 min_amount |-> 10, max_amount |-> 10]
        gem == [item |-> "gem", item_type |-> "tool", weight |-> Num(2),
                rarity |-> "rare", min_amount |-> 10, max_amount |-> 25]
    IN  [loot_entries : {<<herb, gem>>}, player_luck : {ONE, 2 * ONE}]

CallBonusArgs ==
    {[elements_used |-> <<"organic", "catalyst">>],
     [elements_used |-> <<"organic", "biological", "catalyst">>]}

\* the rolls sampled: the grid points two whole units of weight apart
SampledRoll(run) == run.draws = <<>> \/ run.draws[1].v % (4 * ONE) = 0

InitCalls ==
    /\ pc = "start"
    /\ calls = <<>>
    /\ research_progress = <<>>
    /\ barter_transactions = <<>> /\ clients = <<>>
    /\ npcs = <<>> /\ npc_interactions = <<>>
    /\ now = 0
    /\ draws = <<>>
    /\ result = [kind |-> "pending"]
    /\ loot_entries = <<>> /\ player_luck = ONE
    /\ adjusted_entries = <<>> /\ selected = 0
    /\ player_level = 1 /\ npc_rarity = "common" /\ reward_type = "coins"
    /\ elements_used = <<>> /\ synergy_bonus = 0
    /\ loot_tables = <<>>
    /\ response = [op |-> "none"]

\* the value of a call raised when the call before it drew a variance
\* below 1.0
PityBoost ==
    IF /\ calls # <<>>
       /\ calls[Len(calls)].fn = "calculate_fair_reward"
       /\ calls[Len(calls)].draws[1] < ONE
    THEN 100
    ELSE 0

\* calculate_fair_reward with a pity counter kept between the calls
call_calculate_fair_reward_Pity ==
    /\ Len(calls) < MaxCalls
    /\ \E args \in CallFairArgs :
         \E run \in FairRewardRuns(args.player_level, args.npc_rarity, args.reward_type) :
            LET boosted == [kind |-> "float", value |-> run.result.value + PityBoost]
            IN  /\ player_level' = args.player_level
                /\ npc_rarity' = args.npc_rarity
                /\ reward_type' = args.reward_type
                /\ draws' = run.draws
                /\ result' = boosted
                /\ calls' = Append(calls, [fn |-> "calculate_fair_reward",
                                            args |-> args,
                                            draws |-> run.draws,
                                            result |-> boosted,
                                            args_after |-> args])
    /\ pc' = "done"
    /\ UNCHANGED <<selectVars, bonusVars, dbVars>>

\* lines 1210-1254, as one call among others
call_calculate_fair_reward ==
    /\ Len(calls) < MaxCalls
    /\ \E args \in CallFairArgs :
         \E run \in FairRewardRuns(args.player_level, args.npc_rarity, args.reward_type) :
            /\ player_level' = args.player_level
            /\ npc_rarity' = args.npc_rarity
            /\ reward_type' = args.reward_type
            /\ draws' = run.draws
            /\ result' = run.result
            /\ calls' = Append(calls, [fn |-> "calculate_fair_reward",
                                        args |-> args,
                                        draws |-> run.draws,
                                        result |-> run.result,
                                        args_after |-> args])
    /\ pc' = "done"
    /\ UNCHANGED <<selectVars, bonusVars, dbVars>>

\* lines 1257-1316, as one call among others
call_select_weighted_reward ==
    /\ Len(calls) < MaxCalls
    /\ \E args \in CallSelectArgs :
         \E run \in {r \in SelectRuns(args.loot_entries, args.player_luck) : SampledRoll(r)} :
            LET after == [loot_entries |-> LootEntriesAfter(args.loot_entries,
                                                            args.player_luck),
                          player_luck |-> args.player_luck]
            IN  /\ loot_entries' = after.loot_entries
                /\ player_luck' = after.player_luck
                /\ adjusted_entries' = run.adjusted_entries
                /\ selected' = run.selected
                /\ draws' = run.draws
                /\ result' = run.result
                /\ calls' = Append(calls, [fn |-> "select_weighted_reward",
                                            args |-> args,
                                            draws |-> run.draws,
                                            result |-> run.result,
                                            args_after |-> after])
    /\ pc' = "done"
    /\ UNCHANGED <<rewardVars, bonusVars, dbVars>>

\* lines 2959-2992, as one call among others
call_calculate_unique_build_bonus ==
    /\ Len(calls) < MaxCalls
    /\ \E args \in CallBonusArgs :
         \E run \in UniqueBuildBonusRuns(args.elements_used) :
            /\ elements_used' = args.elements_used
            /\ synergy_bonus' = run.synergy_bonus
            /\ draws' = run.draws
            /\ result' = run.result
            /\ calls' = Append(calls, [fn |-> "_calculate_unique_build_bonus",
                                        args |-> args,
                                        draws |-> run.draws,
                                        result |-> run.result,
                                        args_after |-> args])
    /\ pc' = "done"
    /\ UNCHANGED <<selectVars, rewardVars, dbVars>>

NextCalls ==
    \/ call_calculate_fair_reward
    \/ call_select_weighted_reward
    \/ call_calculate_unique_build_bonus

SpecCalls == InitCalls /\ [][NextCalls]_vars

---------------------------------------------------------------------------
(* Properties of select_weighted_reward, checked under SpecSelect *)

Roll == draws[1]

Weight(entry) == Get(entry, "weight", Num(1))

Rarity(entry) == Get(entry, "rarity", "common")

IsRareTier(entry) == Rarity(entry) \in {"rare", "epic", "legendary"}

PositiveWeights(entries) ==
    \A i \in 1..Len(entries) : IsNum(Weight(entries[i])) /\ Weight(entries[i]).v > 0

\* the amount lies within the integer parts of the entry's bounds (given in
\* tenths): int(min_amount) <= amount <= int(max_amount)
AmountWithin(entry, amount) ==
    LET lo == Get(entry, "min_amount", 10)
        hi == Get(entry, "max_amount", 10)
    IN  /\ amount \in Int
        /\ IF lo >= 0 THEN 10 * amount > lo - 10 ELSE 10 * amount >= lo
        /\ IF hi >= 0 THEN 10 * amount <= hi ELSE 10 * amount < hi + 10

EmptyRange(entry) ==
    \A amount \in -5..5 : ~AmountWithin(entry, amount)

\* C1: called with an empty list, select_weighted_reward returns None for
\* every player_luck; it raises nothing and draws nothing from the random
\* source.
C1_EmptyReturnsNone ==
    (pc = "done" /\ Len(loot_entries) = 0) =>
        (result = [kind |-> "None"] /\ draws = <<>>)

C1_Witness ==
    pc = "done" /\ Len(loot_entries) = 0 /\ player_luck = 100

\* C2: called with a non-empty list, select_weighted_reward never returns
\* None, whatever the luck and the roll.  What it returns is built from the
\* entry the cumulative walk stopped at or, when the walk stopped at none, from
\* the first entry of the list with an amount within that entry's own bounds.
\* (The only other way out is the error of the amount draw on an entry whose
\* range is empty.)
C2_NonEmptyNeverNone ==
    (pc = "done" /\ Len(loot_entries) > 0) =>
        LET entry == IF selected = 0 THEN loot_entries[1] ELSE loot_entries[selected]
        IN  /\ result.kind # "None"
            /\ selected \in 0..Len(loot_entries)
            /\ \A i \in 1..Len(loot_entries) :
                 RollLe(Roll, Cumulative(adjusted_entries, i)) => (selected \in 1..i)
            /\ selected # 0 => RollLe(Roll, Cumulative(adjusted_entries, selected))
            /\ \/ /\ result.kind = "dict"
                  /\ result.item = Get(entry, "item", None)
                  /\ result.item_type = Get(entry, "item_type", None)
                  /\ result.rarity = Rarity(entry)
                  /\ AmountWithin(entry, result.amount)
               \/ /\ result.kind = "raise"
                  /\ EmptyRange(entry)

C2_Witness ==
    /\ pc = "done"
    /\ Len(loot_entries) = 2
    /\ selected = 0
    /\ result.kind = "dict"
    /\ result.item = Get(loot_entries[1], "item", None)
    /\ Get(loot_entries[2], "item", None) # result.item

\* C3: the adjusted weight of an entry is weight * min(player_luck, 2.0) when
\* its rarity is rare, epic or legendary and player_luck > 1.0, and its
\* nominal weight otherwise: common and uncommon entries and entries without
\* a rarity are never adjusted, and nothing is adjusted when player_luck <= 1.0.
C3_AdjustedWeight ==
    (pc = "done" /\ Len(loot_entries) > 0) =>
        /\ Len(adjusted_entries) = Len(loot_entries)
        /\ \A i \in 1..Len(loot_entries) :
             LET entry == loot_entries[i]
                 nominal == FMul(Weight(entry), 10)
             IN  /\ (IsRareTier(entry) /\ player_luck > 10) =>
                        adjusted_entries[i] =
                            FMul(Weight(entry), IF player_luck < 20 THEN player_luck ELSE 20)
                 /\ ~IsRareTier(entry) => adjusted_entries[i] = nominal
                 /\ player_luck <= 10 => adjusted_entries[i] = nominal

C3_Witness ==
    /\ pc = "done"
    /\ player_luck = 15
    /\ Len(loot_entries) = 2
    /\ IsRareTier(loot_entries[1]) /\ adjusted_entries[1] = Num(30)
    /\ ~IsRareTier(loot_entries[2]) /\ adjusted_entries[2] = Num(20)

\* C4: the luck multiplier is capped at 2.0.  The adjusted weight of an entry
\* is never more than twice its nominal weight (in magnitude, and NaN stays
\* NaN), and with any player_luck >= 2.0 the call returns, for the same
\* random draws, exactly what it returns with player_luck = 2.0.
C4_LuckCapped ==
    (pc = "done" /\ Len(loot_entries) > 0) =>
        /\ \A i \in 1..Len(loot_entries) :
             LET w == Weight(loot_entries[i])
             IN  IF IsNum(w)
                 THEN /\ IsNum(adjusted_entries[i])
                      /\ IF w.v >= 0
                         THEN adjusted_entries[i].v <= 2 * 10 * w.v
                         ELSE adjusted_entries[i].v >= 2 * 10 * w.v
                 ELSE ~IsNum(adjusted_entries[i])
        /\ player_luck >= 20 =>
             LET capped == AdjustedEntries(loot_entries, 20)
                 runs == SelectRunsAt(loot_entries, capped, Roll)
             IN  /\ Roll \in Uniform(AdjustedTotal(capped))
                 /\ \E run \in runs : run.draws = draws /\ run.result = result
                 /\ \A run \in runs : run.draws = draws => run.result = result

C4_Witness ==
    /\ pc = "done"
    /\ player_luck = 100
    /\ Len(loot_entries) = 2
    /\ selected = 2
    /\ IsRareTier(loot_entries[2]) /\ ~IsRareTier(loot_entries[1])
    /\ adjusted_entries[2] = Num(40)
    /\ result.kind = "dict"

RECURSIVE SumWhere(_, _, _)
\* sum of the weights ws[i] (numbers of tenths) over the indices i <= n in S
SumWhere(ws, S, n) ==
    IF n = 0 THEN 0
    ELSE SumWhere(ws, S, n - 1) + (IF n \in S THEN ws[n].v ELSE 0)

\* C5: luck favours the rare tiers.  On a table of positive weights holding a
\* rare/epic/legendary entry and a common/uncommon entry, the share of
\* adjusted_total held by the rare-tier entries at a player_luck > 1.0 is
\* strictly greater than at player_luck = 1.0, and the share of every
\* common/uncommon entry is strictly smaller.
C5_LuckFavoursRare ==
    LET n == Len(loot_entries)
        rare == {i \in 1..n : IsRareTier(loot_entries[i])}
        plain == (1..n) \ rare
    IN  (/\ pc = "done" /\ player_luck > 10
         /\ PositiveWeights(loot_entries)
         /\ rare # {} /\ plain # {}) =>
            LET base == AdjustedEntries(loot_entries, 10)
                total == SumWhere(adjusted_entries, 1..n, n)
                total0 == SumWhere(base, 1..n, n)
            IN  /\ \A i \in 1..n : base[i] = FMul(Weight(loot_entries[i]), 10)
                /\ SumWhere(adjusted_entries, rare, n) * total0
                     > SumWhere(base, rare, n) * total
                /\ \A i \in plain :
                     adjusted_entries[i].v * total0 < base[i].v * total

C5_Witness ==
    /\ pc = "done"
    /\ player_luck = 15
    /\ PositiveWeights(loot_entries)
    /\ Len(loot_entries) = 2
    /\ IsRareTier(loot_entries[1]) /\ Rarity(loot_entries[2]) = "uncommon"
    /\ selected = 1

\* the number of odd grid points of (0, adjusted_total) the walk over adj
\* answers i for: the measure, in tenths, of the rolls that select entry i
Measure(adj, i) ==
    Cardinality({k \in 0..(2 * AdjustedTotal(adj).v) :
                    k % 2 = 1 /\ WalkIndex(adj, Num(k)) = i})

\* the table of test_weighted_selection_respects_weights
TestEntries ==
    <<[item |-> "common", weight |-> Num(90), rarity |-> "common",
       min_amount |-> 10, max_amount |-> 10],
      [item |-> "rare", weight |-> Num(10), rarity |-> "rare",
       min_amount |-> 10, max_amount |-> 10]>>

Orders(n) ==
    {p \in [1..n -> 1..n] : \A i, j \in 1..n : p[i] = p[j] => i = j}

\* C6: the selection is proportional to the adjusted weights and does not
\* depend on the order of the entries.  On a table of positive weights the
\* walk returns the first entry whose cumulative adjusted weight is >= roll,
\* so entry i is selected exactly by the rolls of the interval
\* (cumulative[i-1], cumulative[i]], whose measure is adjusted_weight[i] out of
\* adjusted_total; placed anywhere else in the list the entry keeps that
\* measure, and a 90-weight entry is selected 9 times as often as a 10-weight
\* one.  (The measures are counted once per table, at roll = 0.)
C6_Proportional ==
    (pc = "done" /\ Len(loot_entries) > 0 /\ PositiveWeights(loot_entries)) =>
        LET n == Len(loot_entries)
            cum(i) == SumWhere(adjusted_entries, 1..i, i)
        IN  /\ selected \in 1..n
            /\ Roll.v <= 2 * cum(selected)
            /\ selected > 1 => Roll.v > 2 * cum(selected - 1)
            /\ cum(selected) - cum(selected - 1) = adjusted_entries[selected].v
            /\ Roll.v = 0 =>
                 /\ \A i \in 1..n :
                      Measure(adjusted_entries, i) = adjusted_entries[i].v
                 /\ \A p \in Orders(n) :
                      LET shuffled == [i \in 1..n |-> loot_entries[p[i]]]
                          adj == AdjustedEntries(shuffled, player_luck)
                      IN  \A i \in 1..n :
                             Measure(adj, i) = adjusted_entries[p[i]].v
                 /\ LET adj == AdjustedEntries(TestEntries, ONE)
                    IN  Measure(adj, 1) = 9 * Measure(adj, 2)

C6_Witness ==
    /\ pc = "done"
    /\ Len(loot_entries) = 2
    /\ PositiveWeights(loot_entries)
    /\ adjusted_entries = <<Num(10), Num(40)>>
    /\ selected = 2
    /\ Roll = Num(21)

\* C7: whenever select_weighted_reward returns a result, its amount is an
\* integer with int(min_amount) <= amount <= int(max_amount) of the entry the
\* result was built from (1 and 1 when the fields are absent), on the walk
\* path and on the fallback path.
C7_AmountWithinBounds ==
    (pc = "done" /\ result.kind = "dict") =>
        LET entry == IF selected = 0 THEN loot_entries[1] ELSE loot_entries[selected]
        IN  /\ result.item = Get(entry, "item", None)
            /\ AmountWithin(entry, result.amount)
            /\ ("min_amount" \notin DOMAIN entry /\ "max_amount" \notin DOMAIN entry)
                 => result.amount = 1

C7_Witness ==
    /\ pc = "done"
    /\ result.kind = "dict"
    /\ selected = 0
    /\ Len(loot_entries) = 2
    /\ Get(loot_entries[1], "min_amount", 10) = 10
    /\ Get(loot_entries[1], "max_amount", 10) = 20
    /\ result.amount = 2

---------------------------------------------------------------------------
(* Properties of the loot-table handlers, checked under SpecLoot *)

StoredEntries(id) == JsonLoads(loot_tables[id].entries_json)

HasInvertedAmounts(entries) ==
    \E i \in 1..Len(entries) :
        Get(entries[i], "min_amount", 10) > Get(entries[i], "max_amount", 10)

\* C8: a loot entry with min_amount > max_amount is guarded against.  A table
\* holding one is refused when it is created or, once stored, every roll on it
\* is refused with InvalidLootEntry, whichever entry the roll would select.
C8_InvertedAmountsRejected ==
    (/\ response.op = "roll"
     /\ response.loot_table_id \in DOMAIN loot_tables
     /\ HasInvertedAmounts(StoredEntries(response.loot_table_id))) =>
        (response.status # 200 /\ response.error = "InvalidLootEntry")

\* C9: create_loot_table refuses an entry whose weight is <= 0 or is not a
\* number, so every entry of every stored loot table has a weight > 0.
C9_StoredWeightsPositive ==
    \A id \in DOMAIN loot_tables :
        LET entries == StoredEntries(id)
        IN  \A i \in 1..Len(entries) :
               /\ "weight" \in DOMAIN entries[i]
               /\ IsNum(entries[i]["weight"])
               /\ entries[i]["weight"].v > 0

---------------------------------------------------------------------------
(* Properties of calculate_fair_reward, checked under SpecReward *)

\* C10: calculate_fair_reward clamps the level.  For every player_level <= 0
\* and every rarity and reward type, the value returned is the one returned
\* for player_level = 1 with the same variance draw.
C10_LevelClamped ==
    (pc = "done" /\ player_level <= 0) =>
        /\ result.kind = "float"
        /\ result = FairReward(1, npc_rarity, reward_type, draws[1])

C10_Witness ==
    /\ pc = "done"
    /\ player_level = -2
    /\ npc_rarity = "common" /\ reward_type = "coins"
    /\ draws = <<10>>
    /\ result = [kind |-> "float", value |-> 1347]

\* p * 1000 >= a * f and p * 1000 <= a * f for a, f >= 0, compared in
\* pieces that fit 32 bits
GeProduct(p, a, f) == p - a * (f \div 1000) >= (a * (f % 1000) + 999) \div 1000

LeProduct(p, a, f) == p - a * (f \div 1000) <= (a * (f % 1000)) \div 1000

\* value, in hundredths, is within half a hundredth of a * f / 4000000
NearestHundredth(value, a, f) ==
    /\ GeProduct(value * 4000 + 2000, a, f)
    /\ LeProduct(value * 4000 - 2000, a, f)

\* the variance draw of the call
Variance == draws[1]

\* C11: calculate_fair_reward is total.  For every level, rarity and reward
\* type it returns a number and raises nothing; an unrecognised rarity gives
\* the result of "common" and an unrecognised reward type the result of
\* "information", for the same variance draw.
C11_TotalWithDefaults ==
    pc = "done" =>
        /\ result.kind = "float"
        /\ npc_rarity \notin Rarities =>
              result = FairReward(player_level, "common", reward_type, Variance)
        /\ reward_type \notin RewardTypes =>
              result = FairReward(player_level, npc_rarity, "information", Variance)

C11_Witness ==
    /\ pc = "done"
    /\ player_level = 0
    /\ npc_rarity = "mythic" /\ reward_type = "trade"
    /\ draws = <<10>>
    /\ result = [kind |-> "float", value |-> 673]

\* C12: for a recognised rarity and reward type the value returned is
\* base_value * rarity_multiplier * variance * (1 + ln(max(level, 1) + 1) * 0.5)
\* rounded to two decimals, with the multipliers 1.0, 1.5, 2.5, 4.0, 7.5 and
\* the base values 10.0, 1.0, 3.0, 5.0, 2.0, 0.1, 15.0.
C12_RewardFormula ==
    LET \* in halves
        multipliers == [common |-> 2, uncommon |-> 3, rare |-> 5, epic |-> 8,
                        legendary |-> 15]
        \* in tenths
        bases == [coins |-> 100, tools |-> 10, elements |-> 30,
                  information |-> 50, special_files |-> 20, nft |-> 1,
                  aid |-> 150]
    IN  (/\ pc = "done"
         /\ npc_rarity \in DOMAIN multipliers
         /\ reward_type \in DOMAIN bases) =>
            /\ result.kind = "float"
            /\ NearestHundredth(
                   result.value,
                   bases[reward_type] * multipliers[npc_rarity] * Variance,
                   2000000 + MathLog(Max(player_level, 1) + 1))

C12_Witness ==
    /\ pc = "done"
    /\ player_level = 10
    /\ npc_rarity = "legendary" /\ reward_type = "aid"
    /\ draws = <<12>>
    /\ result = [kind |-> "float", value |-> 29686]

\* C13: the value returned is strictly positive and lies between 0.8 and 1.2
\* times base * multiplier * (1 + level_bonus), up to the final rounding; for
\* common, coins and level 5 it lies strictly between 0 and 100.
C13_BoundedVariance ==
    pc = "done" =>
        LET deterministic == BaseValue(reward_type) * RarityMultiplier(npc_rarity)
            scale == 2000000 + MathLog(EffectiveLevel(player_level) + 1)
        IN  /\ result.kind = "float"
            /\ result.value > 0
            /\ GeProduct(result.value * 4000 + 2000, 8 * deterministic, scale)
            /\ LeProduct(result.value * 4000 - 2000, 12 * deterministic, scale)
            /\ (npc_rarity = "common" /\ reward_type = "coins" /\ player_level = 5) =>
                  result.value < 10000

C13_Witness ==
    /\ pc = "done"
    /\ player_level = 5
    /\ npc_rarity = "common" /\ reward_type = "coins"
    /\ draws = <<12>>
    /\ result = [kind |-> "float", value |-> 2275]

\* the sum of the values returned over a set of executions
RECURSIVE SumValues(_)
SumValues(runs) ==
    IF runs = {} THEN 0
    ELSE LET run == CHOOSE r \in runs : TRUE
         IN  run.result.value + SumValues(runs \ {run})

\* the expected value of the reward over the variance draw, times the number
\* of points of the variance grid
ExpectedReward(level, rarity, type) == SumValues(FairRewardRuns(level, rarity, type))

\* C14 as worded: for any two player levels a < b the expected reward at b
\* is greater than at a.
C14_StrictlyIncreasingInLevel ==
    pc = "done" =>
        \A a \in Levels :
            a < player_level =>
                ExpectedReward(a, npc_rarity, reward_type)
                    < ExpectedReward(player_level, npc_rarity, reward_type)

\* C14: for any two player levels a < b the expected reward at b is greater
\* than at a when b > 1, and equal to it when b <= 1, where both levels are
\* clamped to 1.
C14_IncreasingAboveMinLevel ==
    pc = "done" =>
        \A a \in Levels :
            a < player_level =>
                IF player_level > 1
                THEN ExpectedReward(a, npc_rarity, reward_type)
                         < ExpectedReward(player_level, npc_rarity, reward_type)
                ELSE ExpectedReward(a, npc_rarity, reward_type)
                         = ExpectedReward(player_level, npc_rarity, reward_type)

C14_Witness ==
    /\ pc = "done"
    /\ player_level = 10
    /\ npc_rarity = "common" /\ reward_type = "coins"
    /\ ExpectedReward(1, "common", "coins") < ExpectedReward(10, "common", "coins")

\* the rarities from the least to the most rewarded
RarityOrder == <<"common", "uncommon", "rare", "epic", "legendary">>

\* C15: for a fixed level and reward type the expected reward increases
\* strictly along common < uncommon < rare < epic < legendary.
C15_IncreasingInRarity ==
    pc = "done" =>
        \A i, j \in DOMAIN RarityOrder :
            (i < j /\ npc_rarity = RarityOrder[i]) =>
                ExpectedReward(player_level, RarityOrder[i], reward_type)
                    < ExpectedReward(player_level, RarityOrder[j], reward_type)

C15_Witness ==
    /\ pc = "done"
    /\ npc_rarity = "rare" /\ reward_type = "nft"
    /\ player_level = 1
    /\ ExpectedReward(1, "rare", "nft") < ExpectedReward(1, "epic", "nft")

\* C16: every call of calculate_fair_reward consumes exactly one draw from
\* the random source, the variance, for every input, unrecognised rarities
\* and reward types and levels <= 0 included.
C16_OneDraw ==
    pc = "done" =>
        /\ Len(draws) = 1
        /\ draws[1] \in Variances

C16_Witness ==
    /\ pc = "done"
    /\ player_level = -2
    /\ npc_rarity = "mythic" /\ reward_type = "trade"
    /\ Len(draws) = 1

---------------------------------------------------------------------------
(* Properties of successive calls, checked under SpecCalls *)

\* two calls of the same function with the same arguments and the same draws
SameCall(c, d) ==
    /\ c.fn = d.fn
    /\ c.args = d.args
    /\ c.draws = d.draws

C18_BonusDeterministic ==
    \A i \in DOMAIN calls :
        calls[i].fn = "_calculate_unique_build_bonus" =>
            /\ calls[i].draws = <<>>
            /\ \A j \in DOMAIN calls :
                  (calls[j].fn = calls[i].fn /\ calls[j].args = calls[i].args) =>
                      calls[j].result = calls[i].result

C18_Witness ==
    /\ Len(calls) = 3
    /\ calls[1].fn = "_calculate_unique_build_bonus"
    /\ calls[1].args.elements_used = <<"organic", "biological", "catalyst">>
    /\ calls[2].fn = "calculate_fair_reward"
    /\ calls[3].fn = calls[1].fn /\ calls[3].args = calls[1].args
    /\ calls[3].result = [kind |-> "float", value |-> 920]

---------------------------------------------------------------------------
(* Properties of _calculate_unique_build_bonus, checked under SpecBonus *)

\* the distinct values of a list
Distinct(xs) == {xs[i] : i \in DOMAIN xs}

\* the largest number of a non-empty finite set
Largest(S) == CHOOSE x \in S : \A y \in S : y <= x

\* C19: the synergy bonus is the largest bonus among the known combinations
\* that are subsets of the distinct types present, and 0 when none is; it is
\* not their sum: organic, biological and catalyst together give 5.0, not
\* 5.0 + 2.0.  The bonus returned is built on that synergy.
C19_SynergyIsMaximum ==
    pc = "done" =>
        LET matching == {i \in DOMAIN synergy_combinations :
                            synergy_combinations[i].combo \subseteq Distinct(elements_used)}
        IN  /\ synergy_bonus =
                  IF matching = {} THEN 0
                  ELSE Largest({synergy_combinations[i].bonus : i \in matching})
            /\ Distinct(elements_used) = {"organic", "biological", "catalyst"} =>
                  synergy_bonus = 10
            /\ elements_used # <<>> =>
                  result.value = TotalBonus(Len(elements_used), synergy_bonus)

C19_Witness ==
    /\ pc = "done"
    /\ elements_used = <<"organic", "biological", "catalyst">>
    /\ synergy_bonus = 10
    /\ result = [kind |-> "float", value |-> 920]

\* C20: the bonus depends only on the number of elements, duplicates
\* counted, and on the set of distinct types: every list of the same length
\* with the same distinct types, its permutations among them, gives the same
\* bonus; a duplicate of a type already present raises the bonus and leaves
\* the synergy as it is.
C20_CountAndTypesOnly ==
    pc = "done" =>
        /\ \A other \in [DOMAIN elements_used -> ElementTags] :
              Distinct(other) = Distinct(elements_used) =>
                  \A run \in UniqueBuildBonusRuns(other) : run.result = result
        /\ \A i \in DOMAIN elements_used :
              \A run \in UniqueBuildBonusRuns(Append(elements_used, elements_used[i])) :
                  /\ run.synergy_bonus = synergy_bonus
                  /\ run.result.value > result.value

C20_Witness ==
    /\ pc = "done"
    /\ elements_used = <<"catalyst", "organic", "organic">>
    /\ synergy_bonus = 4
    /\ result = [kind |-> "float", value |-> 496]

\* C21: the bonus grows when an element is added.  For every non-empty list
\* xs and every tag t, bonus(xs + [t]) > bonus(xs) > 0; in particular
\* bonus([organic]) < bonus([organic, catalyst])
\*                  < bonus([organic, biological, catalyst]).
C21_GrowsWithElements ==
    (pc = "done" /\ elements_used # <<>>) =>
        /\ result.value > 0
        /\ \A t \in ElementTags :
              \A run \in UniqueBuildBonusRuns(Append(elements_used, t)) :
                  run.result.value > result.value
        /\ elements_used = <<"organic">> =>
              \A two \in UniqueBuildBonusRuns(<<"organic", "catalyst">>),
                 three \in UniqueBuildBonusRuns(<<"organic", "biological", "catalyst">>) :
                  /\ result.value < two.result.value
                  /\ two.result.value < three.result.value

C21_Witness ==
    /\ pc = "done"
    /\ elements_used = <<"organic", "catalyst">>
    /\ result = [kind |-> "float", value |-> 399]
    /\ \A run \in UniqueBuildBonusRuns(<<"organic", "catalyst", "organic">>) :
          run.result.value = 496

---------------------------------------------------------------------------
(* Properties of add_research_contribution, checked under SpecResearch *)

\* the request just answered was recorded
Recorded == "status" \in DOMAIN response /\ response.status = 201

\* the request just answered carried no element
NoElements ==
    \/ "elements_used" \notin DOMAIN response.data
    \/ response.data.elements_used = <<>>

\* C22 as worded: a contribution posted without elements_used (or with an
\* empty list) has unique_build_bonus 0.0 and total_contribution equal to
\* its contribution_amount.
C22_EmptyBonusTotalIsAmount ==
    (Recorded /\ NoElements) =>
        /\ result = [kind |-> "float", value |-> 0]
        /\ response.unique_build_bonus = 0
        /\ response.total_contribution * 10 = response.data.contribution_amount

\* C22: _calculate_unique_build_bonus returns exactly 0.0 for an empty or
\* missing elements_used, so such a contribution has unique_build_bonus 0.0,
\* stored and answered, and total_contribution equal to its
\* contribution_amount rounded to two decimals.
C22_EmptyBonusTotalIsRoundedAmount ==
    (Recorded /\ NoElements) =>
        LET row == research_progress[Len(research_progress)]
            amount == response.data.contribution_amount
        IN  /\ result = [kind |-> "float", value |-> 0]
            /\ response.unique_build_bonus = 0
            /\ row.unique_build_bonus = 0
            /\ 2 * (response.total_contribution * 10 - amount) <= 10
            /\ 2 * (amount - response.total_contribution * 10) <= 10

C22_Witness ==
    /\ Recorded
    /\ "elements_used" \notin DOMAIN response.data
    /\ response.data.contribution_amount = 1234
    /\ response.base_contribution = 1234
    /\ response.unique_build_bonus = 0
    /\ response.total_contribution = 123
    /\ Len(research_progress) = 2

---------------------------------------------------------------------------
(* Properties of the request handlers that reach the reward engine,        *)
(* checked under SpecLoot                                                  *)

\* the last request was a roll that called select_weighted_reward
RollCalledEngine == response.op = "roll" /\ response.status # 404

\* C23: every request handler that calls the reward engine clamps its inputs
\* first; on the path of a loot-table roll, select_weighted_reward is called
\* with a player_luck within [0.1, 2.0] whatever the request carries.
C23_HandlersClampInputs ==
    RollCalledEngine =>
        (1 <= response.player_luck /\ response.player_luck <= 2 * ONE)

\* an entry the engine accepts: an item, a positive weight, amounts in order
ValidEntry(entry) ==
    /\ {"item", "weight"} \subseteq DOMAIN entry
    /\ IsNum(entry["weight"]) /\ entry["weight"].v > 0
    /\ Get(entry, "min_amount", ONE) <= Get(entry, "max_amount", ONE)

ValidEntries(entries) ==
    /\ Len(entries) > 0
    /\ \A i \in 1..Len(entries) : ValidEntry(entries[i])

\* a create request with a name and a list of valid entries
ValidCreate(data) ==
    /\ {"name", "entries"} \subseteq DOMAIN data
    /\ data["entries"].t = "list"
    /\ ValidEntries(data["entries"].v)

\* the sum of the nominal weights of valid entries
RECURSIVE NominalSum(_)
NominalSum(entries) ==
    IF entries = <<>> THEN 0
    ELSE entries[1]["weight"].v + NominalSum(Tail(entries))

\* a create request for a table that is not stored yet is answered
CreatesNew(data) ==
    /\ response'.op = "create"
    /\ response'.data = data
    /\ "name" \in DOMAIN data
    /\ TableId(data["name"]) \notin DOMAIN loot_tables

\* C24: creating a loot table with valid entries answers 201 with
\* total_weight equal to the sum of the entries' nominal weights and
\* entry_count equal to the number of entries, the table is stored with these
\* entries, and a later roll on that table returns an item that is one of
\* the stored entries' items.
C24_CreateThenRoll ==
    /\ [][\A data \in CreateBodies :
            (CreatesNew(data) /\ ValidCreate(data)) =>
                LET entries == data["entries"].v
                    id == TableId(data["name"])
                IN  /\ response'.status = 201
                    /\ response'.total_weight = Num(NominalSum(entries))
                    /\ response'.entry_count = Len(entries)
                    /\ id \in DOMAIN loot_tables'
                    /\ JsonLoads(loot_tables'[id].entries_json) = entries]_vars
    /\ [](\A id \in DOMAIN loot_tables :
            (/\ response.op = "roll"
             /\ response.loot_table_id = id
             /\ ValidEntries(StoredEntries(id))) =>
                /\ response.status = 200
                /\ \E i \in 1..Len(StoredEntries(id)) :
                      response.result.item = StoredEntries(id)[i]["item"])

C24_Witness ==
    /\ response.op = "roll"
    /\ response.status = 200
    /\ response.loot_table_id = "loot-1"
    /\ "loot-1" \in DOMAIN loot_tables
    /\ loot_tables["loot-1"].total_weight = Num(3)
    /\ Len(StoredEntries("loot-1")) = 2
    /\ ValidEntries(StoredEntries("loot-1"))
    /\ response.result.item = "gem"

\* C29: a roll on a stored loot table never answers 200 with a null result.
\* create_loot_table accepts an empty entries list (201, total_weight 0,
\* entry_count 0) and every later roll on that table answers 500 "Failed to
\* select reward from loot table"; a roll on an unknown table id answers
\* 404; neither roll changes any stored table.
C29_EmptyTableRoll ==
    /\ [](response.op = "roll" =>
            /\ response.status = 200 => response.result.kind = "dict"
            /\ response.loot_table_id \notin DOMAIN loot_tables =>
                  response.status = 404
            /\ (/\ response.loot_table_id \in DOMAIN loot_tables
                /\ StoredEntries(response.loot_table_id) = <<>>) =>
                  /\ response.status = 500
                  /\ response.error = "Failed to select reward from loot table")
    /\ [][/\ response'.op = "roll" => loot_tables' = loot_tables
          /\ \A data \in CreateBodies :
                (/\ CreatesNew(data)
                 /\ "entries" \in DOMAIN data
                 /\ data["entries"] = List(<<>>)) =>
                    /\ response'.status = 201
                    /\ response'.total_weight = Num(0)
                    /\ response'.entry_count = 0
                    /\ StoredEntries(TableId(data["name"]))' = <<>>]_vars

C29_Witness ==
    /\ response.op = "roll"
    /\ response.status = 500
    /\ response.loot_table_id = "loot-2"
    /\ "loot-2" \in DOMAIN loot_tables
    /\ StoredEntries("loot-2") = <<>>
    /\ loot_tables["loot-2"].total_weight = Num(0)

---------------------------------------------------------------------------
(* The walk of select_weighted_reward on positive weights, checked under   *)
(* SpecSelect                                                              *)

\* C28: with a non-empty list whose weights are all positive and any roll in
\* [0, adjusted_total], both ends included, the cumulative walk of
\* select_weighted_reward selects an entry: the last cumulative weight is
\* adjusted_total, which is >= roll, so the fallback to the first entry is
\* not reached and what is returned comes from the selected entry.
C28_WalkAlwaysSelects ==
    (pc = "done" /\ Len(loot_entries) > 0 /\ PositiveWeights(loot_entries)) =>
        /\ Roll.v >= 0
        /\ Roll.v <= 2 * AdjustedTotal(adjusted_entries).v
        /\ selected \in 1..Len(loot_entries)
        /\ result.kind = "dict" =>
              result.item = Get(loot_entries[selected], "item", None)

\* the roll is the upper bound adjusted_total and the walk stops at the last
\* entry
C28_Witness ==
    /\ pc = "done"
    /\ Len(loot_entries) = 2
    /\ PositiveWeights(loot_entries)
    /\ player_luck = 20
    /\ Roll.v = 2 * AdjustedTotal(adjusted_entries).v
    /\ selected = 2
    /\ result.kind = "dict"

---------------------------------------------------------------------------
(* Properties of the barter endpoints: requests one after another under    *)
(* SpecBarter, requests served at the same time under SpecBarterRace       *)

BarterHandlers == {"accept_barter", "decline_barter"}

\* the step answers a request of the handler on the barter
Answers(handler, barter_id) ==
    response'.op = handler /\ response'.barter_id = barter_id

\* C25: a created barter has status 'pending'; accept on a pending barter
\* sets its status to 'completed' and answers 200 with status 'completed';
\* decline on a pending barter sets its status to 'declined' and answers 200
\* with status 'declined'; accept or decline on an unknown id answers 404 and
\* changes no barter.
C25_BarterTransitions ==
    [][/\ (response'.op = "create_barter" /\ response'.status = 201) =>
            LET id == response'.body.id
            IN  /\ id \notin DOMAIN barter_transactions
                /\ id \in DOMAIN barter_transactions'
                /\ barter_transactions'[id].status = "pending"
                /\ response'.body.status = "pending"
       /\ \A barter_id \in BarterIds :
            /\ (/\ Answers("accept_barter", barter_id)
                /\ barter_id \in DOMAIN barter_transactions
                /\ barter_transactions[barter_id].status = "pending") =>
                    /\ barter_transactions'[barter_id].status = "completed"
                    /\ response'.status = 200
                    /\ response'.body.status = "completed"
            /\ (/\ Answers("decline_barter", barter_id)
                /\ barter_id \in DOMAIN barter_transactions
                /\ barter_transactions[barter_id].status = "pending") =>
                    /\ barter_transactions'[barter_id].status = "declined"
                    /\ response'.status = 200
                    /\ response'.body.status = "declined"
            /\ (/\ Answers("accept_barter", barter_id) \/ Answers("decline_barter", barter_id)
                /\ barter_id \notin DOMAIN barter_transactions) =>
                    /\ response'.status = 404
                    /\ barter_transactions' = barter_transactions]_vars

\* one barter was declined, another was accepted just now
C25_Witness ==
    /\ response.op = "accept_barter"
    /\ response.status = 200
    /\ response.body.status = "completed"
    /\ barter_transactions[response.barter_id].status = "completed"
    /\ \E id \in DOMAIN barter_transactions :
          barter_transactions[id].status = "declined"

\* C26: the terminal states are absorbing: once the status of a barter is
\* 'completed' or 'declined', every later accept or decline request on it,
\* the requests running one after another, answers 400 and leaves its status
\* and its completed_at as they are; nothing takes a barter from 'completed'
\* to 'declined' or back to 'pending'.
C26_TerminalAbsorbing ==
    [][\A barter_id \in DOMAIN barter_transactions :
          barter_transactions[barter_id].status \in {"completed", "declined"} =>
              /\ barter_transactions'[barter_id].status =
                     barter_transactions[barter_id].status
              /\ barter_transactions'[barter_id].completed_at =
                     barter_transactions[barter_id].completed_at
              /\ \A handler \in BarterHandlers :
                    Answers(handler, barter_id) => response'.status = 400]_vars

\* a decline was refused on a completed barter, which keeps its time
C26_Witness ==
    /\ response.op = "decline_barter"
    /\ response.status = 400
    /\ response.current = "completed"
    /\ barter_transactions[response.barter_id].status = "completed"
    /\ barter_transactions[response.barter_id].completed_at # Null

\* the client holds the answer 200 of the handler on the barter
Succeeded(c, handler, barter_id) ==
    /\ clients[c].pc = "idle"
    /\ clients[c].response.op = handler
    /\ clients[c].response.barter_id = barter_id
    /\ clients[c].response.status = 200

\* C27: when an accept request and a decline request for the same pending
\* barter run at the same time, at most one of them answers 200: the barter
\* is never reported 'completed' to one client and 'declined' to the other,
\* and its stored status is the one of the answer 200.
C27_AtMostOneSucceeds ==
    \A barter_id \in DOMAIN barter_transactions :
        /\ \A c, d \in Clients :
              ~(/\ Succeeded(c, "accept_barter", barter_id)
                /\ Succeeded(d, "decline_barter", barter_id))
        /\ \A c \in Clients, handler \in BarterHandlers :
              Succeeded(c, handler, barter_id) =>
                  barter_transactions[barter_id].status =
                      clients[c].response.body.status

---------------------------------------------------------------------------
(* Properties of the NPC endpoints, checked under SpecNpc *)

\* the number of rows of npc_interactions recorded for the NPC
InteractionsOf(rows, npc_id) ==
    Cardinality({i \in 1..Len(rows) : rows[i].npc_id = npc_id})

\* the step answers an interact request on the NPC with the status
Interacted(npc_id, status) ==
    /\ response'.op = "interact_with_npc"
    /\ response'.npc_id = npc_id
    /\ response'.status = status
    /\ (status = 200 => response' # response)

====
